---------------------------- MODULE Spec2Model ----------------------------
(***************************************************************************)
(* Model of the metrics aggregation of the 3D-model format comparison      *)
(* toolkit: Scripts/main.py, Scripts/report_generators.py and              *)
(* Scripts/chart_utils.py.                                                  *)
(*                                                                         *)
(* Conventions                                                             *)
(*   - Python None is the value None below; a dictionary is a function     *)
(*     whose DOMAIN is the set of keys present, so "key absent" and "key   *)
(*     present with value None" are different.                             *)
(*   - models_data (a dict, iterated in insertion order) is a sequence of  *)
(*     entries [name, face_count_k, texture_count, formats].               *)
(*   - Python indices are 0-based; the sequences here are 1-based, so      *)
(*     keep_indices holds i+1 where the code holds i.                      *)
(***************************************************************************)
EXTENDS Integers, Sequences, FiniteSets, TLC

VARIABLES
    pc,              \* position of the running function: "call", "done", "raised"
    fn,              \* name of the function that ran last ("" before any call)
    models_data,     \* the metrics table
    arg_models,      \* `models` as passed to filter_models_by_nonempty
    arg_face_counts, \* `face_counts` as passed to filter_models_by_nonempty
    data_by_format,  \* the series map passed to filter_models_by_nonempty
    models,          \* displayed model list (after filtering)
    face_counts,     \* displayed face counts (after filtering)
    texture_counts,  \* texture counts returned by the filter
    keep_indices,    \* indices returned by the filter
    series,          \* series name -> format -> values, after filtering
    bars,            \* series name -> format -> heights handed to ax.bar
    fmt_data,        \* one FormatMetrics dict (ratio call sites)
    ratio,           \* [compression |-> .., texture |-> ..] computed at a call site
    values,          \* argument of should_use_log_scale
    use_log,         \* its result
    data_file,       \* RawData/all_models_data.json as load_raw_data finds it
    error,           \* the exception that left the running function, if any
    csv_rows,        \* rows of the CSV file read by ModelAnalyzer.load_data
    data,            \* ModelAnalyzer.data
    results,         \* what analyze_all_formats returned
    args,            \* the arguments of the method or function called last
    ret,             \* what the method or function called last returned
    trace,           \* the steps a main() has started, in order
    files,           \* path -> content of the files a run reads and writes
    success_count,   \* success_count of run_all_analysis.main
    total_scripts    \* total_scripts of run_all_analysis.main

argVars    == <<arg_models, arg_face_counts, data_by_format>>
resultVars == <<models, face_counts, texture_counts, keep_indices>>
renderVars == <<series, bars>>
ratioVars  == <<fmt_data, ratio>>
logVars    == <<values, use_log>>
loadVars   == <<data_file, error>>
analyzerVars == <<csv_rows, data, results>>
runVars    == <<args, ret, trace, files, success_count, total_scripts>>
otherVars  == <<loadVars, analyzerVars, runVars>>

vars == <<pc, fn, models_data, argVars, resultVars, renderVars, ratioVars, logVars,
          otherVars>>

-----------------------------------------------------------------------------
(* Bounds of the model *)

MaxModels == 2        \* rows of the table in the direct filter calls
MaxValues == 3        \* length of the list handed to should_use_log_scale
MaxScale == 3         \* largest constant a list is multiplied by
MaxRows == 2          \* rows of the CSV file read by ModelAnalyzer

(* Python None: an integer outside every value domain used below *)
None == -1000000

(* Identity of the rows: names, and face / texture counts distinct per row  *)
ModelNames == <<"alpha", "bravo", "charlie", "delta", "echo">>
FaceCountOf(i) == 10 * i
TextureCountOf(i) == i - 1

(* dict.get(k, None) *)
Get(d, k) == IF k \in DOMAIN d THEN d[k] ELSE None

(* models_data[model_name] *)
Lookup(table, name) ==
    LET i == CHOOSE j \in 1..Len(table) : table[j].name = name IN table[i]

(* list(models_data.keys()) *)
Keys(table) == [i \in 1..Len(table) |-> table[i].name]

(* the keys of a series map in the order of the formats list that built it *)
RECURSIVE KeysInOrder(_, _)
KeysInOrder(order, present) ==
    IF order = <<>> THEN <<>>
    ELSE (IF Head(order) \in present THEN <<Head(order)>> ELSE <<>>)
         \o KeysInOrder(Tail(order), present)

(* formats = ['fbx', 'obj', 'glTF', 'glb'] *)
formats == <<"fbx", "obj", "glTF", "glb">>

Range(s) == {s[i] : i \in 1..Len(s)}

-----------------------------------------------------------------------------
(* filter_models_by_nonempty, Scripts/main.py *)

(* HasDataLoop without the test that the model was measured in the format *)
RECURSIVE HasDataLoop_AnyFormat(_, _, _, _)
HasDataLoop_AnyFormat(fmts, model_data, dbf, i) ==
    IF fmts = <<>> THEN FALSE
    ELSE LET fmt == Head(fmts) IN
         IF dbf[fmt][i] # None /\ dbf[fmt][i] > 0
         THEN TRUE
         ELSE HasDataLoop_AnyFormat(Tail(fmts), model_data, dbf, i)

(* HasDataLoop with has_data starting as True *)
RECURSIVE HasDataLoop_DefaultTrue(_, _, _, _)
HasDataLoop_DefaultTrue(fmts, model_data, dbf, i) ==
    IF fmts = <<>> THEN TRUE
    ELSE LET fmt == Head(fmts) IN
         IF /\ fmt \in DOMAIN model_data.formats
            /\ dbf[fmt][i] # None
            /\ dbf[fmt][i] > 0
         THEN TRUE
         ELSE HasDataLoop_DefaultTrue(Tail(fmts), model_data, dbf, i)

(* the inner loop over data_by_format, with its break *)
RECURSIVE HasDataLoop(_, _, _, _)
HasDataLoop(fmts, model_data, dbf, i) ==
    IF fmts = <<>> THEN FALSE
    ELSE LET fmt == Head(fmts) IN
         IF /\ fmt \in DOMAIN model_data.formats
            /\ dbf[fmt][i] # None
            /\ dbf[fmt][i] > 0
         THEN TRUE
         ELSE HasDataLoop(Tail(fmts), model_data, dbf, i)

(* KeepLoop inserting each kept index at the front of keep_indices *)
RECURSIVE KeepLoop_Prepend(_, _, _, _, _)
KeepLoop_Prepend(table, dbf, mods, i, keep) ==
    IF i > Len(mods) THEN keep
    ELSE LET model_data == Lookup(table, mods[i])
             has_data == HasDataLoop(KeysInOrder(formats, DOMAIN dbf), model_data, dbf, i)
         IN KeepLoop_Prepend(table, dbf, mods, i + 1,
                             IF has_data THEN <<i>> \o keep ELSE keep)

(* the outer loop: keep_indices after rows i..len(models) have been visited *)
RECURSIVE KeepLoop(_, _, _, _, _)
KeepLoop(table, dbf, mods, i, keep) ==
    IF i > Len(mods) THEN keep
    ELSE LET model_data == Lookup(table, mods[i])
             has_data == HasDataLoop(KeysInOrder(formats, DOMAIN dbf), model_data, dbf, i)
         IN KeepLoop(table, dbf, mods, i + 1,
                     IF has_data THEN Append(keep, i) ELSE keep)

(* [model_data['texture_count'] for i, model_name in enumerate(models)      *)
(*  if i in keep_indices]: model_data is the variable the loop left behind, *)
(* the entry of the last model of `models`                                  *)
FilterTextureCounts(table, mods, keep) ==
    [j \in 1..Len(keep) |-> Lookup(table, mods[Len(mods)]).texture_count]

filter_models_by_nonempty(table, dbf, mods, fcs) ==
    LET keep == KeepLoop(table, dbf, mods, 1, <<>>) IN
    [models         |-> [j \in 1..Len(keep) |-> mods[keep[j]]],
     face_counts    |-> [j \in 1..Len(keep) |-> fcs[keep[j]]],
     texture_counts |-> FilterTextureCounts(table, mods, keep),
     keep_indices   |-> keep]

(* filter_models_by_nonempty, Scripts/report_generators.py (same text) *)
rg_filter_models_by_nonempty(table, dbf, mods, fcs) ==
    LET has(i) == LET model_data == Lookup(table, mods[i]) IN
                  HasDataLoop(KeysInOrder(formats, DOMAIN dbf), model_data, dbf, i)
        RECURSIVE loop(_, _)
        loop(i, keep) == IF i > Len(mods) THEN keep
                         ELSE loop(i + 1, IF has(i) THEN Append(keep, i) ELSE keep)
        keep == loop(1, <<>>)
    IN
    [models         |-> [j \in 1..Len(keep) |-> mods[keep[j]]],
     face_counts    |-> [j \in 1..Len(keep) |-> fcs[keep[j]]],
     texture_counts |-> [j \in 1..Len(keep) |-> Lookup(table, mods[Len(mods)]).texture_count],
     keep_indices   |-> keep]

-----------------------------------------------------------------------------
(* should_use_log_scale *)

(* the filter with v >= 0 in place of v > 0 *)
RECURSIVE SelectPositive_KeepZero(_)
SelectPositive_KeepZero(vs) ==
    IF vs = <<>> THEN <<>>
    ELSE (IF Head(vs) # None /\ Head(vs) >= 0 THEN <<Head(vs)>> ELSE <<>>)
         \o SelectPositive_KeepZero(Tail(vs))

RECURSIVE SelectPositive(_)
SelectPositive(vs) ==
    IF vs = <<>> THEN <<>>
    ELSE (IF Head(vs) # None /\ Head(vs) > 0 THEN <<Head(vs)>> ELSE <<>>)
         \o SelectPositive(Tail(vs))

RECURSIVE Min(_)
Min(vs) == IF Len(vs) = 1 THEN vs[1]
           ELSE LET m == Min(Tail(vs)) IN IF vs[1] < m THEN vs[1] ELSE m
RECURSIVE Max(_)
Max(vs) == IF Len(vs) = 1 THEN vs[1]
           ELSE LET m == Max(Tail(vs)) IN IF vs[1] > m THEN vs[1] ELSE m

(* the threshold test with > in place of >= *)
RatioOver100(max_v, min_v) == max_v > 100 * min_v

(* the threshold test on the difference in place of the quotient *)
RatioAsDifference(max_v, min_v) == max_v - min_v >= 99

(* max_v / min_v >= 100 with min_v > 0, as an exact comparison *)
RatioAtLeast100(max_v, min_v) == max_v >= 100 * min_v

(* Scripts/main.py *)
should_use_log_scale(vs) ==
    LET filtered == SelectPositive(vs) IN
    IF filtered = <<>> \/ Len(filtered) < 2 THEN FALSE
    ELSE LET min_v == Min(filtered)
             max_v == Max(filtered)
         IN RatioAtLeast100(max_v, min_v)

(* Scripts/chart_utils.py with a threshold of > 10 *)
cu_should_use_log_scale_Over10(vs) ==
    LET filtered == SelectSeq(vs, LAMBDA v : v # None /\ v > 0) IN
    IF filtered = <<>> \/ Len(filtered) < 2 THEN FALSE
    ELSE Max(filtered) > 10 * Min(filtered)

(* Scripts/chart_utils.py *)
cu_should_use_log_scale(vs) ==
    LET filtered == SelectSeq(vs, LAMBDA v : v # None /\ v > 0) IN
    IF filtered = <<>> \/ Len(filtered) < 2 THEN FALSE
    ELSE Max(filtered) >= 100 * Min(filtered)

-----------------------------------------------------------------------------
(* The compression ratio and the texture share as each chart computes them. *)
(* (1 - size_after / size_before) * 100 and (texture_size / size_before) *  *)
(* 100 are exact below: every size_before of the model divides 100.         *)

CompressionPercent(size_before, size_after) ==
    ((size_before - size_after) * 100) \div size_before
TexturePercent(size_before, texture_size) ==
    (texture_size * 100) \div size_before

(* value not in [None, 0] *)
NotNoneOrZero(v) == v # None /\ v # 0

(* create_per_format_stats: cr and tr *)
PerFormatStats_cr(sb, sa) ==
    IF NotNoneOrZero(sb) /\ NotNoneOrZero(sa) THEN CompressionPercent(sb, sa) ELSE None
PerFormatStats_tr(sb, tc) ==
    IF NotNoneOrZero(sb) /\ NotNoneOrZero(tc) THEN TexturePercent(sb, tc) ELSE None

(* create_combined_report, section 5: compression_ratio and texture_ratio *)
CombinedReport_compression_ratio(size_before, size_after) ==
    IF NotNoneOrZero(size_before) /\ NotNoneOrZero(size_after)
    THEN CompressionPercent(size_before, size_after)
    ELSE None
CombinedReport_texture_ratio(size_before, texture_size) ==
    IF NotNoneOrZero(size_before) /\ NotNoneOrZero(texture_size)
    THEN TexturePercent(size_before, texture_size)
    ELSE None

(* create_model_format_compression_ratio_chart: ratio *)
ModelFormat_ratio(sb, sa) ==
    IF NotNoneOrZero(sb) /\ NotNoneOrZero(sa) THEN CompressionPercent(sb, sa) ELSE None

-----------------------------------------------------------------------------
(* Input domains *)

(* indices of s in increasing order, for a set of indices *)
RECURSIVE Pick(_, _, _)
Pick(s, idx, i) ==
    IF i > Len(s) THEN <<>>
    ELSE (IF i \in idx THEN <<s[i]>> ELSE <<>>) \o Pick(s, idx, i + 1)
SubSeqs(s) == {Pick(s, idx, 1) : idx \in SUBSET (1..Len(s))}

SeqsUpTo(S, n) == UNION {[1..k -> S] : k \in 0..n}

(* all dictionaries over a set of keys: each key absent or bound to a value *)
Dicts(keys, vals) == UNION {[ks -> vals] : ks \in SUBSET keys}

Entry(i, fm) ==
    [name |-> ModelNames[i], face_count_k |-> FaceCountOf(i),
     texture_count |-> TextureCountOf(i), formats |-> fm]
TablesOf(n, FormatMaps) ==
    {[i \in 1..n |-> Entry(i, fm[i])] : fm \in [1..n -> FormatMaps]}
TablesUpTo(n, FormatMaps) == UNION {TablesOf(k, FormatMaps) : k \in 0..n}

(* models_data is one of TablesUpTo(n, FormatMaps), drawn row by row *)
DrawTable(n, FormatMaps) ==
    \E k \in 0..n : \E fm \in [1..k -> FormatMaps] :
        models_data = [i \in 1..k |-> Entry(i, fm[i])]

EmptyDict == <<>>

(* direct calls of the filter: which formats a model was measured in is all *)
(* the filter reads of the table, besides texture_count                     *)
FilterFormats == {"fbx", "glb"}
FilterValues == {None, -5, 0, 5}
PlainFormatMaps == Dicts(FilterFormats, {EmptyDict})

(* import-time tables: import_time_ms absent, null, zero or 3000 ms *)
ImportTimes == {None, 0, 3000}
ImportFormatMaps == Dicts(FilterFormats, Dicts({"import_time_ms"}, ImportTimes))

(* should_use_log_scale arguments *)
LogValues == {None, -1, 0, 1, 2, 99, 100, 200}

(* FormatMetrics of the ratio call sites *)
Sizes == {None, 0, 5, 10, 20}
SizeKeys == {"size_before_mb", "size_after_mb", "texture_size_mb"}

(* no file has been looked for and nothing has been raised *)
NoLoad == data_file = EmptyDict /\ error = EmptyDict
(* no ModelAnalyzer has been built *)
NoAnalyzer == csv_rows = <<>> /\ data = <<>> /\ results = EmptyDict
(* nothing has returned, no main() has run and no file has been written *)
NoRun ==
    /\ args = <<>> /\ ret = None /\ trace = <<>> /\ files = EmptyDict
    /\ success_count = 0 /\ total_scripts = 0

Unused ==
    /\ arg_models = <<>> /\ arg_face_counts = <<>> /\ data_by_format = EmptyDict
    /\ models = <<>> /\ face_counts = <<>> /\ texture_counts = <<>>
    /\ keep_indices = <<>> /\ series = EmptyDict /\ bars = EmptyDict

-----------------------------------------------------------------------------
(* SpecLog: should_use_log_scale on drawn lists *)

InitLog ==
    /\ pc = "call" /\ fn = ""
    /\ models_data = <<>> /\ Unused
    /\ fmt_data = EmptyDict /\ ratio = EmptyDict
    /\ values \in SeqsUpTo(LogValues, MaxValues)
    /\ use_log = FALSE
    /\ NoLoad /\ NoAnalyzer /\ NoRun

ShouldUseLogScale ==
    /\ pc = "call"
    /\ use_log' = should_use_log_scale(values)
    /\ pc' = "done" /\ fn' = "main.should_use_log_scale"
    /\ UNCHANGED <<models_data, argVars, resultVars, renderVars, ratioVars, values, otherVars>>

ChartUtilsShouldUseLogScale ==
    /\ pc = "call"
    /\ use_log' = cu_should_use_log_scale(values)
    /\ pc' = "done" /\ fn' = "chart_utils.should_use_log_scale"
    /\ UNCHANGED <<models_data, argVars, resultVars, renderVars, ratioVars, values, otherVars>>

(* the function of the module named by a first call *)
LogScaleOf(name, vs) ==
    IF name = "main.should_use_log_scale"
    THEN should_use_log_scale(vs)
    ELSE cu_should_use_log_scale(vs)

LogScaleNames == {"main.should_use_log_scale", "chart_utils.should_use_log_scale"}

LogFrame == UNCHANGED <<models_data, argVars, resultVars, renderVars, ratioVars, otherVars>>

(* a second call of the same function, on the positive values of the list *)
CallOnPositives ==
    /\ pc = "done" /\ fn \in LogScaleNames
    /\ values' = SelectSeq(values, LAMBDA v : v # None /\ v > 0)
    /\ use_log' = LogScaleOf(fn, values')
    /\ pc' = "positives" /\ fn' = fn
    /\ LogFrame

(* a second call of the same function, on [v*k for v in values] with None   *)
(* left as it is                                                            *)
CallOnScaled ==
    /\ pc = "done" /\ fn \in LogScaleNames
    /\ \E k \in 2..MaxScale :
           values' = [i \in 1..Len(values) |->
                         IF values[i] = None THEN None ELSE values[i] * k]
    /\ use_log' = LogScaleOf(fn, values')
    /\ pc' = "scaled" /\ fn' = fn
    /\ LogFrame

(* a second call on the same list, of the function of the other module *)
CallOtherDefinition ==
    /\ pc = "done" /\ fn \in LogScaleNames
    /\ fn' = (IF fn = "main.should_use_log_scale"
              THEN "chart_utils.should_use_log_scale"
              ELSE "main.should_use_log_scale")
    /\ use_log' = LogScaleOf(fn', values)
    /\ pc' = "other"
    /\ UNCHANGED values
    /\ LogFrame

(* a second call of the same function on the same list *)
CallAgain ==
    /\ pc = "done" /\ fn \in LogScaleNames
    /\ use_log' = LogScaleOf(fn, values)
    /\ pc' = "again" /\ fn' = fn
    /\ UNCHANGED values
    /\ LogFrame

(* the axis-scale decision of a chart, report_generators.py 51-54: the list *)
(* is the chart's series, format after format                               *)
ChartAxisScale ==
    /\ pc = "call"
    /\ LET all_values == SelectSeq(values, LAMBDA v : v # None /\ v > 0) IN
       use_log' = cu_should_use_log_scale(all_values)
    /\ pc' = "axis" /\ fn' = "report_generators.create_import_time_comparison"
    /\ UNCHANGED values
    /\ LogFrame

NextLog ==
    \/ ShouldUseLogScale
    \/ ChartUtilsShouldUseLogScale
    \/ CallOnPositives
    \/ CallOnScaled
    \/ CallOtherDefinition
    \/ CallAgain
    \/ ChartAxisScale
SpecLog == InitLog /\ [][NextLog]_vars

-----------------------------------------------------------------------------
(* SpecRatio: the ratio expressions of the charts on one FormatMetrics dict *)

InitRatio ==
    /\ pc = "call" /\ fn = ""
    /\ models_data = <<>> /\ Unused
    /\ fmt_data \in Dicts(SizeKeys, Sizes)
    /\ ratio = EmptyDict
    /\ values = <<>> /\ use_log = FALSE
    /\ NoLoad /\ NoAnalyzer /\ NoRun

RatioFrame ==
    UNCHANGED <<models_data, argVars, resultVars, renderVars, fmt_data, logVars,
                otherVars>>

PerFormatStatsRatios ==
    /\ pc = "call"
    /\ LET sb == Get(fmt_data, "size_before_mb")
           sa == Get(fmt_data, "size_after_mb")
           tc == Get(fmt_data, "texture_size_mb")
       IN ratio' = [compression |-> PerFormatStats_cr(sb, sa),
                    texture     |-> PerFormatStats_tr(sb, tc)]
    /\ pc' = "done" /\ fn' = "create_per_format_stats"
    /\ RatioFrame

CombinedReportRatios ==
    /\ pc = "call"
    /\ LET size_before  == Get(fmt_data, "size_before_mb")
           size_after   == Get(fmt_data, "size_after_mb")
           texture_size == Get(fmt_data, "texture_size_mb")
       IN ratio' = [compression |-> CombinedReport_compression_ratio(size_before, size_after),
                    texture     |-> CombinedReport_texture_ratio(size_before, texture_size)]
    /\ pc' = "done" /\ fn' = "create_combined_report"
    /\ RatioFrame

ModelFormatRatio ==
    /\ pc = "call"
    /\ LET sb == Get(fmt_data, "size_before_mb")
           sa == Get(fmt_data, "size_after_mb")
       IN ratio' = [compression |-> ModelFormat_ratio(sb, sa)]
    /\ pc' = "done" /\ fn' = "create_model_format_compression_ratio_chart"
    /\ RatioFrame

NextRatio == PerFormatStatsRatios \/ CombinedReportRatios \/ ModelFormatRatio
SpecRatio == InitRatio /\ [][NextRatio]_vars

-----------------------------------------------------------------------------
(* create_import_time_comparison *)

FormatsSet == Range(formats)

(* model_data['formats'][fmt]['import_time_ms'] / 1000, or None when the    *)
(* format or the key is absent; the times of the model are whole seconds    *)
ImportSeconds(model_data, fmt) ==
    IF fmt \in DOMAIN model_data.formats
       /\ "import_time_ms" \in DOMAIN model_data.formats[fmt]
    THEN model_data.formats[fmt]["import_time_ms"] \div 1000
    ELSE None

(* None / 1000 raises TypeError *)
ImportRaises(model_data) ==
    \E fmt \in FormatsSet :
        /\ fmt \in DOMAIN model_data.formats
        /\ "import_time_ms" \in DOMAIN model_data.formats[fmt]
        /\ model_data.formats[fmt]["import_time_ms"] = None

(* data_by_format[fmt] = [data_by_format[fmt][i] for i in keep_indices] *)
Reindex(dbf, keep) ==
    [fmt \in DOMAIN dbf |-> [j \in 1..Len(keep) |-> dbf[fmt][keep[j]]]]

(* what ax.bar receives for a series entry v *)
BarAsIs(v) == v                                                \* the list itself
BarPositiveOrZero(v) == IF v # None /\ v > 0 THEN v ELSE 0    \* v if v is not None and v > 0 else 0
BarNoneAsZero(v) == IF v # None THEN v ELSE 0                  \* v if v is not None else 0

(* bar_vals as the chart named by kind computes them *)
BarValue(kind, v) ==
    CASE kind = "as_is"            -> BarAsIs(v)
      [] kind = "positive_or_zero" -> BarPositiveOrZero(v)
      [] kind = "none_as_zero"     -> BarNoneAsZero(v)

BarHeights(ser, kind) ==
    [s \in DOMAIN ser |->
        [fmt \in DOMAIN ser[s] |->
            [j \in 1..Len(ser[s][fmt]) |-> BarValue(kind, ser[s][fmt][j])]]]

(* report_generators.py: the pre-selection loop; valid_indices *)
RECURSIVE rg_valid_indices(_, _)
rg_valid_indices(table, idx) ==
    IF idx > Len(table) THEN <<>>
    ELSE LET model_data == table[idx]
             has_data == \E fmt \in FormatsSet :
                             /\ fmt \in DOMAIN model_data.formats
                             /\ "import_time_ms" \in DOMAIN model_data.formats[fmt]
         IN (IF has_data THEN <<idx>> ELSE <<>>) \o rg_valid_indices(table, idx + 1)

(* main.py: every model of the table is a candidate *)
main_import_candidates(table) == [i \in 1..Len(table) |-> i]

(* the rest of both functions, from the candidate rows on *)
(* the filter_models_by_nonempty of the module the chart lives in *)
ImportFilter(module, table, dbf, mods, fcs) ==
    IF module = "main"
    THEN filter_models_by_nonempty(table, dbf, mods, fcs)
    ELSE rg_filter_models_by_nonempty(table, dbf, mods, fcs)

ImportChart(table, valid_indices, module) ==
    LET mods == [j \in 1..Len(valid_indices) |-> table[valid_indices[j]].name]
        fcs  == [j \in 1..Len(valid_indices) |-> table[valid_indices[j]].face_count_k]
        dbf  == [fmt \in FormatsSet |->
                    [j \in 1..Len(valid_indices) |->
                        ImportSeconds(table[valid_indices[j]], fmt)]]
        r    == ImportFilter(module, table, dbf, mods, fcs)
    IN [arg_models |-> mods, arg_face_counts |-> fcs, data_by_format |-> dbf,
        result |-> r, series |-> [data_by_format |-> Reindex(dbf, r.keep_indices)]]

-----------------------------------------------------------------------------
(* SpecFilter: filter_models_by_nonempty called on drawn arguments, and     *)
(* called by the import-time charts on a drawn table                        *)

InitDirect ==
    /\ pc = "call" /\ fn = ""
    /\ DrawTable(MaxModels, PlainFormatMaps)
    /\ arg_models \in SubSeqs(Keys(models_data))
    /\ arg_face_counts =
           [i \in 1..Len(arg_models) |-> Lookup(models_data, arg_models[i]).face_count_k]
    /\ data_by_format \in
           UNION {[ks -> [1..Len(arg_models) -> FilterValues]] : ks \in SUBSET FilterFormats}
    /\ models = <<>> /\ face_counts = <<>> /\ texture_counts = <<>>
    /\ keep_indices = <<>> /\ series = EmptyDict /\ bars = EmptyDict
    /\ fmt_data = EmptyDict /\ ratio = EmptyDict
    /\ values = <<>> /\ use_log = FALSE
    /\ NoLoad /\ NoAnalyzer /\ NoRun

InitImport ==
    /\ pc = "start" /\ fn = ""
    /\ DrawTable(MaxModels, ImportFormatMaps)
    /\ Unused
    /\ fmt_data = EmptyDict /\ ratio = EmptyDict
    /\ values = <<>> /\ use_log = FALSE
    /\ NoLoad /\ NoAnalyzer /\ NoRun

InitFilter == InitDirect \/ InitImport

FilterFrame == UNCHANGED <<models_data, ratioVars, logVars, otherVars>>

Returned(r) ==
    /\ models' = r.models
    /\ face_counts' = r.face_counts
    /\ texture_counts' = r.texture_counts
    /\ keep_indices' = r.keep_indices

FilterNames == {"main.filter_models_by_nonempty",
                "report_generators.filter_models_by_nonempty"}

(* the filter rewriting the lists it was handed (models[:] = ...) *)
FilterModelsByNonempty_InPlace ==
    /\ pc = "call"
    /\ LET r == filter_models_by_nonempty(models_data, data_by_format,
                                          arg_models, arg_face_counts) IN
       /\ Returned(r)
       /\ arg_models' = r.models
       /\ arg_face_counts' = r.face_counts
    /\ pc' = "done" /\ fn' = "main.filter_models_by_nonempty"
    /\ UNCHANGED <<data_by_format, renderVars>>
    /\ FilterFrame

FilterModelsByNonempty ==
    /\ pc = "call"
    /\ Returned(filter_models_by_nonempty(models_data, data_by_format,
                                          arg_models, arg_face_counts))
    /\ pc' = "done" /\ fn' = "main.filter_models_by_nonempty"
    /\ UNCHANGED <<argVars, renderVars>>
    /\ FilterFrame

ReportGeneratorsFilterModelsByNonempty ==
    /\ pc = "call"
    /\ Returned(rg_filter_models_by_nonempty(models_data, data_by_format,
                                             arg_models, arg_face_counts))
    /\ pc' = "done" /\ fn' = "report_generators.filter_models_by_nonempty"
    /\ UNCHANGED <<argVars, renderVars>>
    /\ FilterFrame

(* a second call of the same filter with the same arguments *)
FilterModelsByNonemptyAgain ==
    /\ pc = "done" /\ fn \in FilterNames
    /\ Returned(ImportFilter(IF fn = "main.filter_models_by_nonempty"
                              THEN "main" ELSE "report_generators",
                             models_data, data_by_format, arg_models, arg_face_counts))
    /\ pc' = "again" /\ fn' = fn
    /\ UNCHANGED <<argVars, renderVars>>
    /\ FilterFrame

RunImportChart(name, valid_indices, module, kind) ==
    /\ pc = "start"
    /\ fn' = name
    /\ IF \E j \in 1..Len(valid_indices) : ImportRaises(models_data[valid_indices[j]])
       THEN /\ pc' = "raised"
            /\ UNCHANGED <<argVars, resultVars, renderVars>>
       ELSE LET c == ImportChart(models_data, valid_indices, module) IN
            /\ pc' = "done"
            /\ arg_models' = c.arg_models
            /\ arg_face_counts' = c.arg_face_counts
            /\ data_by_format' = c.data_by_format
            /\ Returned(c.result)
            /\ series' = c.series
            /\ bars' = BarHeights(c.series, kind)
    /\ FilterFrame

CreateImportTimeComparison ==
    RunImportChart("main.create_import_time_comparison",
                   main_import_candidates(models_data), "main",
                   "as_is")

ReportGeneratorsCreateImportTimeComparison ==
    RunImportChart("report_generators.create_import_time_comparison",
                   rg_valid_indices(models_data, 1), "report_generators",
                   "positive_or_zero")

NextFilter ==
    \/ FilterModelsByNonempty
    \/ ReportGeneratorsFilterModelsByNonempty
    \/ FilterModelsByNonemptyAgain
    \/ CreateImportTimeComparison
    \/ ReportGeneratorsCreateImportTimeComparison
SpecFilter == InitFilter /\ [][NextFilter]_vars

(* SpecPure: the two pure operations of the aggregation, each called on     *)
(* drawn arguments and called again                                         *)
InitPure == InitDirect \/ InitLog
NextPure ==
    \/ FilterModelsByNonempty
    \/ ReportGeneratorsFilterModelsByNonempty
    \/ FilterModelsByNonemptyAgain
    \/ ShouldUseLogScale
    \/ ChartUtilsShouldUseLogScale
    \/ CallAgain
SpecPure == InitPure /\ [][NextPure]_vars

-----------------------------------------------------------------------------
(* The charts of Scripts/main.py that select models, build per-format       *)
(* series and filter them                                                   *)

(* the rows of the table that pass a test, in the table's iteration order *)
(* has_data[i] is the test's outcome for row i                             *)
RowsWhere(table, has_data) ==
    Pick([i \in 1..Len(table) |-> i], {i \in 1..Len(table) : has_data[i]}, 1)
AllRows(table) == [i \in 1..Len(table) |-> i]

NamesAt(table, rows) == [j \in 1..Len(rows) |-> table[rows[j]].name]
FaceCountsAt(table, rows) == [j \in 1..Len(rows) |-> table[rows[j]].face_count_k]

(* one list per format, one entry per row, appended in row order *)
(* entry[i][fmt] is what the chart appends for row i and format fmt        *)
BuildSeries(rows, fmts, entry) ==
    [fmt \in fmts |-> [j \in 1..Len(rows) |-> entry[rows[j]][fmt]]]

ChartResult(mods, fcs, dbf, r, ser, kind) ==
    [arg_models |-> mods, arg_face_counts |-> fcs, data_by_format |-> dbf,
     result |-> r, series |-> ser, bars |-> BarHeights(ser, kind)]

(* ---- create_gltf_glb_comparison ---- *)
gltf_glb_formats == {"glTF", "glb"}

GltfGlb_has_data(model_data) ==
    \E fmt \in gltf_glb_formats :
        /\ fmt \in DOMAIN model_data.formats
        /\ LET fd == model_data.formats[fmt] IN
           \/ NotNoneOrZero(Get(fd, "load_time_ms"))
           \/ NotNoneOrZero(Get(fd, "load_memory_mb"))

(* load_time / 1000 if load_time not in [None, 0] else None; whole seconds *)
GltfGlb_load_time(model_data, fmt) ==
    IF fmt \in DOMAIN model_data.formats
    THEN LET load_time == Get(model_data.formats[fmt], "load_time_ms") IN
         IF NotNoneOrZero(load_time) THEN load_time \div 1000 ELSE None
    ELSE None

GltfGlb_load_memory(model_data, fmt) ==
    IF fmt \in DOMAIN model_data.formats
    THEN LET load_memory == Get(model_data.formats[fmt], "load_memory_mb") IN
         IF NotNoneOrZero(load_memory) THEN load_memory ELSE None
    ELSE None

create_gltf_glb_comparison(table) ==
    LET valid_indices    == RowsWhere(table, [i \in 1..Len(table) |-> GltfGlb_has_data(table[i])])
        mods             == NamesAt(table, valid_indices)
        fcs              == FaceCountsAt(table, valid_indices)
        load_time_data   == BuildSeries(valid_indices, gltf_glb_formats,
                [i \in 1..Len(table) |-> [fmt \in gltf_glb_formats |-> GltfGlb_load_time(table[i], fmt)]])
        load_memory_data == BuildSeries(valid_indices, gltf_glb_formats,
                [i \in 1..Len(table) |-> [fmt \in gltf_glb_formats |-> GltfGlb_load_memory(table[i], fmt)]])
        r                == filter_models_by_nonempty(table, load_time_data, mods, fcs)
    IN ChartResult(mods, fcs, load_time_data, r,
                   [load_time_data   |-> Reindex(load_time_data, r.keep_indices),
                    load_memory_data |-> Reindex(load_memory_data, r.keep_indices)],
                   "positive_or_zero")

(* ---- create_model_format_compression_ratio_chart, and section 4 of ---- *)
(* ---- create_combined_report (same text)                            ---- *)
ModelFormat_entry(model_data, fmt) ==
    IF fmt \in DOMAIN model_data.formats
    THEN ModelFormat_ratio(Get(model_data.formats[fmt], "size_before_mb"),
                           Get(model_data.formats[fmt], "size_after_mb"))
    ELSE None

ModelFormat_has_any(model_data) ==
    \E fmt \in FormatsSet :
        /\ fmt \in DOMAIN model_data.formats
        /\ NotNoneOrZero(Get(model_data.formats[fmt], "size_before_mb"))
        /\ NotNoneOrZero(Get(model_data.formats[fmt], "size_after_mb"))

(* data_by_format gets an entry for every model of the table; models and   *)
(* face_counts only for the models with has_any                            *)
create_model_format_compression_ratio_chart(table) ==
    LET dbf  == BuildSeries(AllRows(table), FormatsSet,
                [i \in 1..Len(table) |-> [fmt \in FormatsSet |-> ModelFormat_entry(table[i], fmt)]])
        rows == RowsWhere(table, [i \in 1..Len(table) |-> ModelFormat_has_any(table[i])])
        mods == NamesAt(table, rows)
        fcs  == FaceCountsAt(table, rows)
        r    == filter_models_by_nonempty(table, dbf, mods, fcs)
    IN ChartResult(mods, fcs, dbf, r,
                   [data_by_format |-> Reindex(dbf, r.keep_indices)],
                   "none_as_zero")

(* ---- create_combined_report, section 5 ---- *)
Combined5_has_data(model_data) ==
    \E fmt \in FormatsSet :
        /\ fmt \in DOMAIN model_data.formats
        /\ NotNoneOrZero(Get(model_data.formats[fmt], "size_before_mb"))
        /\ NotNoneOrZero(Get(model_data.formats[fmt], "size_after_mb"))

Combined5_compression(model_data, fmt) ==
    IF fmt \in DOMAIN model_data.formats
    THEN CombinedReport_compression_ratio(Get(model_data.formats[fmt], "size_before_mb"),
                                          Get(model_data.formats[fmt], "size_after_mb"))
    ELSE None

Combined5_texture(model_data, fmt) ==
    IF fmt \in DOMAIN model_data.formats
    THEN CombinedReport_texture_ratio(Get(model_data.formats[fmt], "size_before_mb"),
                                      Get(model_data.formats[fmt], "texture_size_mb"))
    ELSE None

combined_report_section5(table) ==
    LET valid_indices          == RowsWhere(table, [i \in 1..Len(table) |-> Combined5_has_data(table[i])])
        mods                   == NamesAt(table, valid_indices)
        fcs                    == FaceCountsAt(table, valid_indices)
        compression_ratio_data == BuildSeries(valid_indices, FormatsSet,
                [i \in 1..Len(table) |-> [fmt \in FormatsSet |-> Combined5_compression(table[i], fmt)]])
        texture_ratio_data     == BuildSeries(valid_indices, FormatsSet,
                [i \in 1..Len(table) |-> [fmt \in FormatsSet |-> Combined5_texture(table[i], fmt)]])
        r == filter_models_by_nonempty(table, compression_ratio_data, mods, fcs)
    IN ChartResult(mods, fcs, compression_ratio_data, r,
                   [compression_ratio_data |-> Reindex(compression_ratio_data, r.keep_indices),
                    texture_ratio_data     |-> Reindex(texture_ratio_data, r.keep_indices)],
                   "positive_or_zero")

(* ---- create_combined_report, section 6 ---- *)
Combined6_keys == {"size_before_mb", "size_after_mb", "peak_memory_mb"}

Combined6_has_data(model_data) ==
    \E fmt \in FormatsSet :
        /\ fmt \in DOMAIN model_data.formats
        /\ \E k \in Combined6_keys : NotNoneOrZero(Get(model_data.formats[fmt], k))

Combined6_size_before(model_data, fmt) ==
    IF fmt \in DOMAIN model_data.formats
    THEN Get(model_data.formats[fmt], "size_before_mb") ELSE None
Combined6_size_after(model_data, fmt) ==
    IF fmt \in DOMAIN model_data.formats
    THEN Get(model_data.formats[fmt], "size_after_mb") ELSE None
Combined6_memory(model_data, fmt) ==
    IF fmt \in DOMAIN model_data.formats
    THEN Get(model_data.formats[fmt], "peak_memory_mb") ELSE None

combined_report_section6(table) ==
    LET valid_indices    == RowsWhere(table, [i \in 1..Len(table) |-> Combined6_has_data(table[i])])
        mods             == NamesAt(table, valid_indices)
        fcs              == FaceCountsAt(table, valid_indices)
        size_before_data == BuildSeries(valid_indices, FormatsSet,
                [i \in 1..Len(table) |-> [fmt \in FormatsSet |-> Combined6_size_before(table[i], fmt)]])
        size_after_data  == BuildSeries(valid_indices, FormatsSet,
                [i \in 1..Len(table) |-> [fmt \in FormatsSet |-> Combined6_size_after(table[i], fmt)]])
        memory_data      == BuildSeries(valid_indices, FormatsSet,
                [i \in 1..Len(table) |-> [fmt \in FormatsSet |-> Combined6_memory(table[i], fmt)]])
        r == filter_models_by_nonempty(table, size_before_data, mods, fcs)
    IN ChartResult(mods, fcs, size_before_data, r,
                   [size_before_data |-> Reindex(size_before_data, r.keep_indices),
                    size_after_data  |-> Reindex(size_after_data, r.keep_indices),
                    memory_data      |-> Reindex(memory_data, r.keep_indices)],
                   "positive_or_zero")

-----------------------------------------------------------------------------
(* SpecCharts: the charts run on a drawn table *)

MaxSizeModels == 3    \* rows of the size tables

(* glTF / glb load metrics *)
LoadFormatMaps ==
    {fm \in Dicts(gltf_glb_formats,
                  Dicts({"load_time_ms", "load_memory_mb"}, {None, 0, 2000, 7})) :
        /\ \A fmt \in DOMAIN fm : Get(fm[fmt], "load_time_ms") \in {None, 0, 2000}
        /\ \A fmt \in DOMAIN fm : Get(fm[fmt], "load_memory_mb") \in {None, 0, 7}
        /\ "glTF" \in DOMAIN fm => "load_memory_mb" \notin DOMAIN fm["glTF"]}

(* fbx sizes, with a glb that always compresses to a quarter *)
SizeFormatMaps ==
    {fm \in Dicts({"fbx", "glb"},
                  Dicts({"size_before_mb", "size_after_mb"}, {0, 5, 10, 20})) :
        /\ "fbx" \in DOMAIN fm =>
               /\ Get(fm["fbx"], "size_before_mb") \in {None, 0, 10}
               /\ Get(fm["fbx"], "size_after_mb") \in {None, 0, 5, 20}
        /\ "glb" \in DOMAIN fm =>
               fm["glb"] = [size_before_mb |-> 20, size_after_mb |-> 5]}

(* fbx with peak memory and texture size next to the sizes *)
MemoryFormatMaps ==
    {fm \in Dicts({"fbx"},
                  Dicts({"size_before_mb", "size_after_mb", "peak_memory_mb",
                         "texture_size_mb"}, {0, 5, 7, 10})) :
        "fbx" \in DOMAIN fm =>
            /\ Get(fm["fbx"], "size_before_mb") \in {None, 10}
            /\ Get(fm["fbx"], "size_after_mb") \in {None, 5}
            /\ Get(fm["fbx"], "peak_memory_mb") \in {None, 0, 7}
            /\ Get(fm["fbx"], "texture_size_mb") \in {None, 0, 5}}

ChartTables ==
    \/ DrawTable(MaxModels, LoadFormatMaps)
    \/ DrawTable(MaxSizeModels, SizeFormatMaps)
    \/ DrawTable(MaxModels, MemoryFormatMaps)

InitCharts ==
    /\ pc = "start" /\ fn = ""
    /\ ChartTables
    /\ Unused
    /\ fmt_data = EmptyDict /\ ratio = EmptyDict
    /\ values = <<>> /\ use_log = FALSE
    /\ NoLoad /\ NoAnalyzer /\ NoRun

Charted(c) ==
    /\ arg_models' = c.arg_models
    /\ arg_face_counts' = c.arg_face_counts
    /\ data_by_format' = c.data_by_format
    /\ Returned(c.result)
    /\ series' = c.series
    /\ bars' = c.bars
    /\ FilterFrame

CreateGltfGlbComparison ==
    /\ pc = "start"
    /\ Charted(create_gltf_glb_comparison(models_data))
    /\ pc' = "done" /\ fn' = "create_gltf_glb_comparison"

CreateModelFormatCompressionRatioChart ==
    /\ pc = "start"
    /\ Charted(create_model_format_compression_ratio_chart(models_data))
    /\ pc' = "done" /\ fn' = "create_model_format_compression_ratio_chart"

(* create_size_memory_comparison: has_data is read before any assignment    *)
(* when the first model has no data (UnboundLocalError), and valid_indices  *)
(* is never defined (NameError) otherwise and for an empty table            *)
CreateSizeMemoryComparison ==
    /\ pc = "start"
    /\ pc' = "raised" /\ fn' = "create_size_memory_comparison"
    /\ UNCHANGED <<argVars, resultVars, renderVars>>
    /\ FilterFrame

(* create_combined_report, sections 4 to 6 in turn; sections 1 to 3 build   *)
(* lists of their own that no later section reads                           *)
CombinedReportSection4 ==
    /\ pc = "start"
    /\ Charted(create_model_format_compression_ratio_chart(models_data))
    /\ pc' = "combined_5" /\ fn' = "create_combined_report.4"

CombinedReportSection5 ==
    /\ pc = "combined_5"
    /\ Charted(combined_report_section5(models_data))
    /\ pc' = "combined_6" /\ fn' = "create_combined_report.5"

CombinedReportSection6 ==
    /\ pc = "combined_6"
    /\ Charted(combined_report_section6(models_data))
    /\ pc' = "done" /\ fn' = "create_combined_report.6"

NextCharts ==
    \/ CreateGltfGlbComparison
    \/ CreateModelFormatCompressionRatioChart
    \/ CreateSizeMemoryComparison
    \/ CombinedReportSection4
    \/ CombinedReportSection5
    \/ CombinedReportSection6
SpecCharts == InitCharts /\ [][NextCharts]_vars

-----------------------------------------------------------------------------
(* load_raw_data: Scripts/data_loader.py and Scripts/main.py                *)
(* The data file is missing, or holds text that is no JSON document, or     *)
(* holds a JSON document; a document is written as the table it parses to.  *)

DataFiles ==
    \/ data_file = [state |-> "missing"]
    \/ data_file = [state |-> "malformed"]
    \/ \E k \in 0..MaxModels : \E fm \in [1..k -> ImportFormatMaps] :
           data_file = [state |-> "valid",
                        content |-> [i \in 1..k |-> Entry(i, fm[i])]]

(* the path each definition opens *)
dl_data_path == "<Scripts>/../RawData/all_models_data.json, normalised"
main_data_path == "RawData/all_models_data.json"

(* an exception: its type and the pieces its message is made of *)
Raise(type, message) == [type |-> type, message |-> message]

InitLoad ==
    /\ pc = "start" /\ fn = ""
    /\ models_data = <<>> /\ Unused
    /\ fmt_data = EmptyDict /\ ratio = EmptyDict
    /\ values = <<>> /\ use_log = FALSE
    /\ DataFiles
    /\ error = EmptyDict
    /\ NoAnalyzer /\ NoRun

LoadFrame ==
    UNCHANGED <<argVars, resultVars, renderVars, ratioVars, logVars, data_file,
                analyzerVars, runVars>>

(* data_loader.load_raw_data: FileNotFoundError and json.JSONDecodeError    *)
(* are caught and raised again as RuntimeError with data_path in the text   *)
DataLoaderLoadRawData ==
    /\ pc = "start"
    /\ fn' = "data_loader.load_raw_data"
    /\ CASE data_file.state = "missing" ->
               /\ error' = Raise("RuntimeError",
                                 <<"Data file not found: ", dl_data_path>>)
               /\ pc' = "raised"
               /\ UNCHANGED models_data
         [] data_file.state = "malformed" ->
               /\ error' = Raise("RuntimeError",
                                 <<"JSON decode error in ", dl_data_path, ": ",
                                   "Expecting value: line 1 column 1 (char 0)">>)
               /\ pc' = "raised"
               /\ UNCHANGED models_data
         [] data_file.state = "valid" ->
               /\ models_data' = data_file.content
               /\ pc' = "done"
               /\ UNCHANGED error
    /\ LoadFrame

(* main.load_raw_data: open and json.load with nothing caught; open names   *)
(* the file in its FileNotFoundError, json.load knows no file name          *)
MainLoadRawData ==
    /\ pc = "start"
    /\ fn' = "main.load_raw_data"
    /\ CASE data_file.state = "missing" ->
               /\ error' = Raise("FileNotFoundError",
                                 <<"[Errno 2] No such file or directory: ",
                                   main_data_path>>)
               /\ pc' = "raised"
               /\ UNCHANGED models_data
         [] data_file.state = "malformed" ->
               /\ error' = Raise("JSONDecodeError",
                                 <<"Expecting value: line 1 column 1 (char 0)">>)
               /\ pc' = "raised"
               /\ UNCHANGED models_data
         [] data_file.state = "valid" ->
               /\ models_data' = data_file.content
               /\ pc' = "done"
               /\ UNCHANGED error
    /\ LoadFrame

NextLoad == DataLoaderLoadRawData \/ MainLoadRawData
SpecLoad == InitLoad /\ [][NextLoad]_vars

-----------------------------------------------------------------------------
(* ModelAnalyzer, src/analyzer.py                                           *)
(* A CSV row is a dict of strings; the sizes of the model are whole numbers *)
(* of MB chosen so that every ratio is a whole number of percent.           *)

(* float(cell) and int(cell) on the cells the model writes *)
ParseNumber(cell) ==
    CASE cell = "0" -> 0
      [] cell = "2" -> 2
      [] cell = "5" -> 5
      [] cell = "10" -> 10
      [] cell = "20" -> 20
      [] cell = "30" -> 30
      [] cell = "1000" -> 1000

CsvFormats == {"fbx", "obj"}
CsvRow(i, cells) ==
    [model_name |-> ModelNames[i], face_count |-> "1000", texture_count |-> "2",
     format |-> cells.format,
     original_size_mb |-> cells.original_size_mb,
     compressed_size_mb |-> cells.compressed_size_mb,
     texture_size_mb |-> cells.texture_size_mb,
     peak_memory_mb |-> cells.peak_memory_mb]
CsvCells ==
    [format : CsvFormats,
     original_size_mb : {"0", "10", "20"},
     compressed_size_mb : {"5", "20"},
     texture_size_mb : {"0", "5"},
     peak_memory_mb : {"N/A", "30"}]
(* the file whose rows are written with the given cells *)
CsvFile(cells) == [i \in 1..Len(cells) |-> CsvRow(i, cells[i])]

(* _calculate_compression_ratio returning the compressed share *)
_calculate_compression_ratio_OfCompressed(original, compressed) ==
    IF original = 0 THEN 0
    ELSE (compressed * 100) \div original

(* (original - compressed) / original * 100, and 0.0 when original == 0 *)
_calculate_compression_ratio(original, compressed) ==
    IF original = 0 THEN 0
    ELSE ((original - compressed) * 100) \div original

(* texture / original * 100, and 0.0 when original == 0 *)
_calculate_texture_percentage(original, texture) ==
    IF original = 0 THEN 0
    ELSE (texture * 100) \div original

_process_row(row) ==
    LET original   == ParseNumber(row.original_size_mb)
        compressed == ParseNumber(row.compressed_size_mb)
        texture    == ParseNumber(row.texture_size_mb)
        peak_memory == row.peak_memory_mb
    IN [model_name |-> row.model_name,
        format |-> row.format,
        face_count |-> ParseNumber(row.face_count),
        texture_count |-> ParseNumber(row.texture_count),
        original_size_mb |-> original,
        compressed_size_mb |-> compressed,
        texture_size_mb |-> texture,
        peak_memory_mb |-> IF peak_memory = "N/A" \/ peak_memory = ""
                           THEN None ELSE ParseNumber(peak_memory),
        compression_ratio |-> _calculate_compression_ratio(original, compressed),
        texture_percentage |-> _calculate_texture_percentage(original, texture)]

(* sorted(list(set(row['format'] for row in self.data))), as a set *)
get_formats(rows) == {rows[i].format : i \in 1..Len(rows)}

get_format_data(rows, format_type) ==
    SelectSeq(rows, LAMBDA row : row.format = format_type)

RECURSIVE Sum(_)
Sum(vs) == IF vs = <<>> THEN 0 ELSE Head(vs) + Sum(Tail(vs))
Abs(n) == IF n < 0 THEN -n ELSE n
RECURSIVE GCD(_, _)
GCD(a, b) == IF b = 0 THEN a ELSE GCD(b, a % b)

(* the mean rounded down to a whole number *)
Mean_Floor(vs) == [num |-> Sum(vs) \div Len(vs), den |-> 1]

(* statistics.mean: the exact quotient sum / n, kept as a fraction in       *)
(* lowest terms                                                             *)
Mean(vs) ==
    LET total == Sum(vs)
        g == GCD(Abs(total), Len(vs))
    IN [num |-> total \div g, den |-> Len(vs) \div g]

Column(rows, key) == [i \in 1..Len(rows) |-> rows[i][key]]

analyze_format_performance(rows, format_type) ==
    LET format_data == get_format_data(rows, format_type)
        original_sizes == Column(format_data, "original_size_mb")
        compressed_sizes == Column(format_data, "compressed_size_mb")
        compression_ratios == Column(format_data, "compression_ratio")
        texture_percentages == Column(format_data, "texture_percentage")
        memory_data == SelectSeq(Column(format_data, "peak_memory_mb"),
                                 LAMBDA v : v # None)
    IN IF format_data = <<>> THEN EmptyDict
       ELSE [format |-> format_type,
             count |-> Len(format_data),
             avg_original_size |-> Mean(original_sizes),
             avg_compressed_size |-> Mean(compressed_sizes),
             avg_compression_ratio |-> Mean(compression_ratios),
             avg_texture_percentage |-> Mean(texture_percentages),
             min_original_size |-> Min(original_sizes),
             max_original_size |-> Max(original_sizes),
             min_compressed_size |-> Min(compressed_sizes),
             max_compressed_size |-> Max(compressed_sizes),
             avg_peak_memory |-> IF memory_data # <<>> THEN Mean(memory_data)
                                 ELSE [num |-> None, den |-> 1],
             min_peak_memory |-> IF memory_data # <<>> THEN Min(memory_data) ELSE None,
             max_peak_memory |-> IF memory_data # <<>> THEN Max(memory_data) ELSE None,
             memory_data_count |-> Len(memory_data)]

analyze_all_formats(rows) ==
    [format_type \in get_formats(rows) |-> analyze_format_performance(rows, format_type)]

csv_path == "data/model_data.csv"

InitAnalyzer ==
    /\ pc = "start" /\ fn = ""
    /\ models_data = <<>> /\ Unused
    /\ fmt_data = EmptyDict /\ ratio = EmptyDict
    /\ values = <<>> /\ use_log = FALSE
    /\ \/ data_file = [state |-> "missing"] /\ csv_rows = <<>>
       \/ /\ data_file = [state |-> "valid"]
          /\ \E n \in 0..MaxRows : \E cells \in [1..n -> CsvCells] :
                 csv_rows = CsvFile(cells)
    /\ error = EmptyDict
    /\ data = <<>> /\ results = EmptyDict /\ NoRun

AnalyzerFrame ==
    UNCHANGED <<models_data, argVars, resultVars, renderVars, ratioVars, logVars,
                data_file, csv_rows, runVars>>

(* ModelAnalyzer.__init__ and load_data *)
LoadData ==
    /\ pc = "start"
    /\ fn' = "ModelAnalyzer.load_data"
    /\ IF data_file.state = "missing"
       THEN /\ error' = Raise("FileNotFoundError", <<"data file does not exist: ", csv_path>>)
            /\ pc' = "raised"
            /\ UNCHANGED data
       ELSE /\ data' = [i \in 1..Len(csv_rows) |-> _process_row(csv_rows[i])]
            /\ pc' = "loaded"
            /\ UNCHANGED error
    /\ UNCHANGED results
    /\ AnalyzerFrame

AnalyzeAllFormats ==
    /\ pc = "loaded"
    /\ results' = analyze_all_formats(data)
    /\ pc' = "done" /\ fn' = "ModelAnalyzer.analyze_all_formats"
    /\ UNCHANGED <<data, error>>
    /\ AnalyzerFrame

NextAnalyzer == LoadData \/ AnalyzeAllFormats
SpecAnalyzer == InitAnalyzer /\ [][NextAnalyzer]_vars

-----------------------------------------------------------------------------
(* The queries of ModelAnalyzer (src/analyzer.py) and MemoryAnalyzer        *)
(* (src/memory_analyzer.py) on the rows load_data has read                  *)

(* the strings in case-insensitive order: glb before glTF *)
CodePointOrder_CaseFolded ==
    <<"alpha", "bravo", "charlie", "delta", "echo",
      "fbx", "glb", "glTF", "gltf", "obj", "stl">>

(* the strings of the model in the order Python compares str: by code       *)
(* point, so that an upper-case letter sorts before every lower-case one    *)
CodePointOrder ==
    <<"alpha", "bravo", "charlie", "delta", "echo",
      "fbx", "glTF", "glb", "gltf", "obj", "stl">>

(* sorted(list(set(...))) of strings *)
sorted(S) == KeysInOrder(CodePointOrder, S)

(* the set(...) inside get_models *)
get_models(rows) == {rows[i].model_name : i \in 1..Len(rows)}

(* a < b on fractions with positive denominators; float('inf') is 1/0 *)
Less(a, b) == a.num * b.den < b.num * a.den

(* max() returning the first key whatever its value *)
max_by_FirstKey(keys, key) == keys[1]

(* max(keys, key=...): the first key that no other key exceeds *)
RECURSIVE max_by(_, _)
max_by(keys, key) ==
    IF Len(keys) = 1 THEN keys[1]
    ELSE LET best == max_by(SubSeq(keys, 1, Len(keys) - 1), key)
             last == keys[Len(keys)]
         IN IF Less(key[best], key[last]) THEN last ELSE best

(* min(keys, key=...): the first key that no other key undercuts *)
RECURSIVE min_by(_, _)
min_by(keys, key) ==
    IF Len(keys) = 1 THEN keys[1]
    ELSE LET best == min_by(SubSeq(keys, 1, Len(keys) - 1), key)
             last == keys[Len(keys)]
         IN IF Less(key[last], key[best]) THEN last ELSE best

supported_criteria == {"compression", "memory", "size", "texture"}

(* the key= lambda of each criterion; `x or float('inf')` is inf when x is  *)
(* None and when x is 0.0, both being false in Python                       *)
criteria_key(analysis, criteria) ==
    CASE criteria = "compression" -> analysis.avg_compression_ratio
      [] criteria = "memory" ->
            IF analysis.avg_peak_memory.num = None \/ analysis.avg_peak_memory.num = 0
            THEN [num |-> 1, den |-> 0]
            ELSE analysis.avg_peak_memory
      [] criteria = "size" -> analysis.avg_compressed_size
      [] criteria = "texture" -> analysis.avg_texture_percentage

(* find_best_format: [return |-> (best_format, analysis)], or the           *)
(* ValueError it raises for an unknown criterion and the one max() / min()  *)
(* raise on no formats. The dict of analyses is keyed in get_formats()      *)
(* order.                                                                   *)
find_best_format(rows, criteria) ==
    LET format_analyses == analyze_all_formats(rows)
        keys == sorted(DOMAIN format_analyses)
        key == [f \in DOMAIN format_analyses |->
                    criteria_key(format_analyses[f], criteria)]
    IN IF criteria \notin supported_criteria
       THEN [raise |-> Raise("ValueError", <<"unsupported criterion: ", criteria>>)]
       ELSE IF keys = <<>>
       THEN [raise |-> Raise("ValueError", <<"arg is an empty sequence">>)]
       ELSE LET best_format == IF criteria = "compression" THEN max_by(keys, key)
                               ELSE min_by(keys, key)
            IN [return |-> <<best_format, format_analyses[best_format]>>]

(* MemoryAnalyzer.__init__: the rows whose peak_memory_mb is not None *)
memory_data(rows) == SelectSeq(rows, LAMBDA row : row.peak_memory_mb # None)

(* the keys of a dict in the order they were first inserted *)
RECURSIVE InsertionOrder(_)
InsertionOrder(ks) ==
    IF ks = <<>> THEN <<>>
    ELSE LET before == InsertionOrder(SubSeq(ks, 1, Len(ks) - 1))
             last == ks[Len(ks)]
         IN IF last \in Range(before) THEN before ELSE Append(before, last)

(* analyze_memory_by_format: the items of the dict it returns, in insertion *)
(* order (median and std_dev are not carried)                               *)
analyze_memory_by_format(rows) ==
    LET fmts == InsertionOrder(Column(memory_data(rows), "format"))
    IN [i \in 1..Len(fmts) |->
            LET memory_values ==
                    Column(get_format_data(memory_data(rows), fmts[i]), "peak_memory_mb")
            IN [format |-> fmts[i],
                count |-> Len(memory_values),
                mean |-> Mean(memory_values),
                min |-> Min(memory_values),
                max |-> Max(memory_values)]]

(* sorted() leaving the items in insertion order *)
sorted_by_mean_Unsorted(items) == items

(* sorted(items, key=mean): stable, an item goes behind every item whose    *)
(* mean is not greater                                                      *)
RECURSIVE sorted_by_mean(_)
sorted_by_mean(items) ==
    IF items = <<>> THEN <<>>
    ELSE LET rest == sorted_by_mean(SubSeq(items, 1, Len(items) - 1))
             last == items[Len(items)]
             k == Cardinality({j \in 1..Len(rest) : ~Less(last.mean, rest[j].mean)})
         IN SubSeq(rest, 1, k) \o <<last>> \o SubSeq(rest, k + 1, Len(rest))

find_memory_efficient_formats(rows) ==
    LET sorted_formats == sorted_by_mean(analyze_memory_by_format(rows))
    IN [i \in 1..Len(sorted_formats) |->
            <<sorted_formats[i].format, sorted_formats[i].mean>>]

(* get_memory_statistics (median and std_dev are not carried).              *)
(* statistics.quantiles raises StatisticsError on fewer than two data       *)
(* points up to Python 3.12 and returns from Python 3.13 on: strict says    *)
(* which interpreter runs.                                                  *)
get_memory_statistics(rows, strict) ==
    LET memory_values == Column(memory_data(rows), "peak_memory_mb")
    IN IF memory_values = <<>>
       THEN [return |-> [error |-> "no memory data available"]]
       ELSE IF Len(memory_values) < 2 /\ strict
       THEN [raise |-> Raise("StatisticsError", <<"must have at least two data points">>)]
       ELSE [return |-> [total_count |-> Len(memory_values),
                         mean |-> Mean(memory_values),
                         min |-> Min(memory_values),
                         max |-> Max(memory_values)]]

(* Python floats are binary: every operation returns the value nearest to   *)
(* the exact result that has a significand of Precision bits, ties to even. *)
(* CPython's float has 53 bits; the model keeps the rounding and narrows    *)
(* the significand, so that its numbers round where doubles with long       *)
(* significands (108.1, 0.1) round.                                         *)
Precision == 6

RECURSIVE Pow2(_)
Pow2(k) == IF k = 0 THEN 1 ELSE 2 * Pow2(k - 1)

(* the float nearest to the integer n *)
Round(n) ==
    IF Abs(n) < Pow2(Precision) THEN n
    ELSE LET s == CHOOSE k \in 1..24 :
                      /\ Abs(n) \div Pow2(k - 1) >= Pow2(Precision)
                      /\ Abs(n) \div Pow2(k) < Pow2(Precision)
             q == Abs(n) \div Pow2(s)
             rem == Abs(n) % Pow2(s)
             half == Pow2(s - 1)
             m == IF rem > half \/ (rem = half /\ q % 2 = 1) THEN q + 1 ELSE q
         IN (IF n < 0 THEN -1 ELSE 1) * m * Pow2(s)

(* sum(vs): exact on ints, rounded after every addition on floats *)
RECURSIVE sum(_, _)
sum(vs, exact) ==
    IF vs = <<>> THEN 0
    ELSE LET t == sum(SubSeq(vs, 1, Len(vs) - 1), exact) + vs[Len(vs)]
         IN IF exact THEN t ELSE Round(t)

(* x ** 0.5 for a float x > 0 that is a whole number: [m, e] is m * 2^e *)
sqrt(x) ==
    LET lo == Pow2(2 * Precision - 2)
        e == IF x >= lo
             THEN CHOOSE k \in 0..12 : x \div Pow2(2 * k) \in lo..(4 * lo - 1)
             ELSE CHOOSE k \in -Precision..-1 : x * Pow2(-2 * k) \in lo..(4 * lo - 1)
        q == IF e >= 0 THEN x \div Pow2(2 * e) ELSE x * Pow2(-2 * e)
        m == CHOOSE r \in 0..Pow2(Precision) : r * r <= q /\ (r + 1) * (r + 1) > q
        up == IF e <= 0 THEN q > m * m + m
              ELSE LET mid == (2 * m + 1) * (2 * m + 1) * Pow2(2 * e - 2)
                   IN x > mid \/ (x = mid /\ m % 2 = 1)
    IN [m |-> IF up THEN m + 1 ELSE m, e |-> e]

(* n / d for a whole float n # 0 and a float d = [m, e] > 0 *)
divide(n, d) ==
    LET t == CHOOSE k \in -24..24 :
                 (IF k >= 0 THEN (Abs(n) * Pow2(k)) \div d.m
                  ELSE Abs(n) \div (d.m * Pow2(-k)))
                     \in Pow2(Precision - 1)..(Pow2(Precision) - 1)
        A == IF t >= 0 THEN Abs(n) * Pow2(t) ELSE Abs(n)
        B == IF t >= 0 THEN d.m ELSE d.m * Pow2(-t)
        q == A \div B
        rem == A % B
        m == IF 2 * rem > B \/ (2 * rem = B /\ q % 2 = 1) THEN q + 1 ELSE q
    IN [m |-> (IF n < 0 THEN -1 ELSE 1) * m, e |-> -t - d.e]

(* _calculate_correlation on x_values and y_values; exact says that the x   *)
(* are ints (face_count, texture_count), whose sums and products Python     *)
(* keeps exact until they meet a float. A negative float to the power 0.5   *)
(* is a complex number in Python, and so is the quotient returned then.     *)
_calculate_correlation(x_values, y_values, exact) ==
    LET n == Len(x_values)
        sum_x == sum(x_values, exact)
        sum_y == sum(y_values, FALSE)
        sum_xy == sum([i \in 1..n |-> Round(x_values[i] * y_values[i])], FALSE)
        sum_x2 == sum([i \in 1..n |-> IF exact THEN x_values[i] * x_values[i]
                                      ELSE Round(x_values[i] * x_values[i])], exact)
        sum_y2 == sum([i \in 1..n |-> Round(y_values[i] * y_values[i])], FALSE)
        numerator == Round(Round(n * sum_xy) - Round(Round(sum_x) * sum_y))
        spread_x == IF exact THEN n * sum_x2 - sum_x * sum_x
                    ELSE Round(Round(n * sum_x2) - Round(sum_x * sum_x))
        spread_y == Round(Round(n * sum_y2) - Round(sum_y * sum_y))
        product == Round(Round(spread_x) * spread_y)
    IN IF n < 2 THEN [type |-> "float", m |-> 0, e |-> 0]
       ELSE IF product < 0 THEN [type |-> "complex", m |-> 0, e |-> 0]
       ELSE IF product = 0 \/ numerator = 0 THEN [type |-> "float", m |-> 0, e |-> 0]
       ELSE [type |-> "float"] @@ divide(numerator, sqrt(product))

get_memory_correlation_analysis(rows) ==
    LET peak == Column(memory_data(rows), "peak_memory_mb")
    IN IF memory_data(rows) = <<>>
       THEN [error |-> "no memory data available"]
       ELSE [face_count_correlation |->
                 _calculate_correlation(Column(memory_data(rows), "face_count"), peak, TRUE),
             file_size_correlation |->
                 _calculate_correlation(Column(memory_data(rows), "original_size_mb"), peak, FALSE),
             texture_count_correlation |->
                 _calculate_correlation(Column(memory_data(rows), "texture_count"), peak, TRUE)]

(* The rows of the CSV files the queries are run on, by the columns that    *)
(* vary: names and formats; sizes; peak memory with face counts and sizes   *)
QueryCells ==
    { [model_name : {"alpha", "bravo"}, face_count : {"1000"}, texture_count : {"2"},
       format : {"fbx", "glTF", "glb", "obj"}, original_size_mb : {"10"},
       compressed_size_mb : {"5"}, texture_size_mb : {"5"}, peak_memory_mb : {"N/A"}],
      [model_name : {"alpha"}, face_count : {"1000"}, texture_count : {"2"},
       format : CsvFormats, original_size_mb : {"0", "10", "20"},
       compressed_size_mb : {"5", "20"}, texture_size_mb : {"0", "5"},
       peak_memory_mb : {"N/A"}],
      [model_name : {"alpha"}, face_count : {"10", "20"}, texture_count : {"2"},
       format : CsvFormats, original_size_mb : {"10", "20"},
       compressed_size_mb : {"5"}, texture_size_mb : {"5"},
       peak_memory_mb : {"N/A", "0", "10", "30"}] }

InitQuery ==
    /\ pc = "start" /\ fn = ""
    /\ models_data = <<>> /\ Unused
    /\ fmt_data = EmptyDict /\ ratio = EmptyDict
    /\ values = <<>> /\ use_log = FALSE
    /\ data_file = [state |-> "valid"]
    /\ \E n \in 0..MaxRows : \E cells \in QueryCells : \E rows \in [1..n -> cells] :
           csv_rows = [i \in 1..n |-> rows[i]]
    /\ error = EmptyDict
    /\ data = <<>> /\ results = EmptyDict /\ NoRun

(* a call on the loaded data: it returns or raises *)
Call(name, arguments, outcome) ==
    /\ pc = "loaded"
    /\ fn' = name /\ args' = arguments
    /\ IF "raise" \in DOMAIN outcome
       THEN pc' = "raised" /\ error' = outcome.raise /\ UNCHANGED ret
       ELSE pc' = "returned" /\ ret' = outcome.return /\ UNCHANGED error
    /\ UNCHANGED <<models_data, argVars, resultVars, renderVars, ratioVars, logVars,
                   data_file, analyzerVars, trace, success_count, total_scripts>>

(* a query: a call that writes no file *)
Query(name, arguments, outcome) ==
    Call(name, arguments, outcome) /\ UNCHANGED files

GetFormats ==
    Query("ModelAnalyzer.get_formats", <<>>, [return |-> sorted(get_formats(data))])
GetModels ==
    Query("ModelAnalyzer.get_models", <<>>, [return |-> sorted(get_models(data))])
FindBestFormat ==
    \E criteria \in supported_criteria \cup {"speed"} :
        Query("ModelAnalyzer.find_best_format", <<criteria>>,
              find_best_format(data, criteria))
FindMemoryEfficientFormats ==
    Query("MemoryAnalyzer.find_memory_efficient_formats", <<>>,
          [return |-> find_memory_efficient_formats(data)])
GetMemoryStatistics ==
    \E strict \in BOOLEAN :
        Query("MemoryAnalyzer.get_memory_statistics", <<>>,
              get_memory_statistics(data, strict))
GetMemoryCorrelationAnalysis ==
    Query("MemoryAnalyzer.get_memory_correlation_analysis", <<>>,
          [return |-> get_memory_correlation_analysis(data)])

NextQuery ==
    \/ LoadData
    \/ GetFormats \/ GetModels \/ FindBestFormat
    \/ FindMemoryEfficientFormats \/ GetMemoryStatistics \/ GetMemoryCorrelationAnalysis
SpecQuery == InitQuery /\ [][NextQuery]_vars

-----------------------------------------------------------------------------
(* ReportGenerator.generate_all_reports, as run_analysis.py calls it on the *)
(* loaded analyzer                                                          *)

(* a file or directory that is there; what it holds is not looked at *)
Present == [state |-> "present"]

(* the values of a dict *)
DictValues(d) == {d[k] : k \in DOMAIN d}

(* the dict export_summary_data returns *)
export_summary_data ==
    [json |-> "charts/summary_report.json",
     csv |-> "charts/summary_statistics.csv",
     comparison |-> "charts/model_comparison_data.json",
     memory |-> "charts/memory_analysis.json"]

(* the dict export_memory_data returns *)
export_memory_data ==
    [json |-> "charts/detailed_memory_analysis.json",
     report |-> "charts/memory_analysis_report.txt"]

(* generated_files.update(other): the entries of other replace those of    *)
(* the same key                                                             *)
update(generated_files, other) == other @@ generated_files

(* generate_all_reports: what it returns or raises, and the files written   *)
(* by then. With a memory analyzer generate_text_report calls               *)
(* get_memory_statistics, whose exception nothing catches, and              *)
(* export_memory_data hands the correlations to json.dump, which raises     *)
(* TypeError on a complex number after it has opened the file.              *)
generate_all_reports(rows, memory_analyzer, strict) ==
    LET reports == [text |-> "charts/analysis_report.txt",
                    html |-> "charts/analysis_report.html"]
        summary_files == update(reports, export_summary_data)
        statistics == get_memory_statistics(rows, strict)
    IN IF ~memory_analyzer
       THEN [return |-> summary_files, written |-> DictValues(summary_files)]
       ELSE IF "raise" \in DOMAIN statistics
       THEN [raise |-> statistics.raise, written |-> {}]
       ELSE IF \E correlation \in {get_memory_correlation_analysis(rows)} :
                   /\ "error" \notin DOMAIN correlation
                   /\ \E k \in DOMAIN correlation : correlation[k].type = "complex"
       THEN [raise |-> Raise("TypeError", <<"Object of type complex is not JSON serializable">>),
             written |-> DictValues(summary_files) \cup {export_memory_data.json}]
       ELSE [return |-> update(summary_files, export_memory_data),
             written |-> DictValues(summary_files) \cup DictValues(export_memory_data)]

GenerateAllReports ==
    /\ pc = "loaded"
    /\ \E memory_analyzer \in BOOLEAN : \E strict \in BOOLEAN :
        \E outcome \in {generate_all_reports(data, memory_analyzer, strict)} :
            /\ files' = [p \in outcome.written |-> Present]
            /\ Call("ReportGenerator.generate_all_reports", <<memory_analyzer>>, outcome)

(* The rows of the CSV files the reports are generated from: with and       *)
(* without a peak memory, none to MaxRows of them                           *)
ReportCells ==
    [model_name : {"alpha"}, face_count : {"10", "20"}, texture_count : {"2"},
     format : {"fbx", "obj"}, original_size_mb : {"10", "20"},
     compressed_size_mb : {"5"}, texture_size_mb : {"5"},
     peak_memory_mb : {"N/A", "10", "30"}]

InitReports ==
    /\ pc = "start" /\ fn = ""
    /\ models_data = <<>> /\ Unused
    /\ fmt_data = EmptyDict /\ ratio = EmptyDict
    /\ values = <<>> /\ use_log = FALSE
    /\ data_file = [state |-> "valid"]
    /\ \E n \in 0..MaxRows : \E rows \in [1..n -> ReportCells] :
           csv_rows = [i \in 1..n |-> rows[i]]
    /\ error = EmptyDict
    /\ data = <<>> /\ results = EmptyDict /\ NoRun

NextReports == LoadData \/ GenerateAllReports
SpecReports == InitReports /\ [][NextReports]_vars

-----------------------------------------------------------------------------
(* main() of Scripts/main.py: the run that generates every report *)

(* the create_* calls of main(), in the order it makes them *)
Generators ==
    <<"create_import_time_comparison", "create_size_memory_comparison",
      "create_compression_texture_ratio", "create_gltf_glb_comparison",
      "create_per_format_stats", "create_model_format_compression_ratio_chart",
      "create_all_format_size_before", "create_all_format_size_after",
      "create_summary_report", "create_combined_report">>

(* has_data = True has run for the first model of the table: one of its     *)
(* formats has a key of keys that is neither None nor 0 (any), or has none  *)
(* that is None or 0 (all)                                                  *)
FirstHasData(table, keys, any) ==
    \E fmt \in FormatsSet \cap DOMAIN table[1].formats :
        LET present == {k \in keys : Get(table[1].formats[fmt], k) \notin {None, 0}}
        IN IF any THEN present # {} ELSE present = keys

(* the exception that leaves the generator on a non-empty table, "" when it *)
(* returns. create_size_memory_comparison and                               *)
(* create_compression_texture_ratio read has_data, which no model assigns   *)
(* before the first has data (UnboundLocalError), and append to             *)
(* valid_indices, which nothing defines (NameError). main() never gets to   *)
(* the generators behind them; called on their own on populated tables,     *)
(* they return.                                                             *)
generator_error(g, table) ==
    CASE g = "create_import_time_comparison" ->
            IF \E i \in 1..Len(table) : ImportRaises(table[i]) THEN "TypeError" ELSE ""
      [] g = "create_size_memory_comparison" ->
            IF FirstHasData(table, {"size_before_mb", "size_after_mb", "peak_memory_mb"}, TRUE)
            THEN "NameError" ELSE "UnboundLocalError"
      [] g = "create_compression_texture_ratio" ->
            IF FirstHasData(table, {"size_before_mb", "size_after_mb"}, FALSE)
            THEN "NameError" ELSE "UnboundLocalError"
      [] OTHER -> ""

(* tables of main(): one format with an import time and a size *)
MainFormatMaps ==
    Dicts({"fbx"}, Dicts({"import_time_ms", "size_before_mb"}, {None, 0, 3000}))

InitMain ==
    /\ pc = "main" /\ fn = ""
    /\ DrawTable(MaxModels, MainFormatMaps)
    /\ models_data # <<>>
    /\ Unused
    /\ fmt_data = EmptyDict /\ ratio = EmptyDict
    /\ values = <<>> /\ use_log = FALSE
    /\ NoLoad /\ NoAnalyzer /\ NoRun

(* main() after load_raw_data: it makes its next call, and prints 'All      *)
(* reports generated' after the last one; nothing catches an exception, so  *)
(* the first one raised ends the run                                        *)
Main ==
    /\ pc = "main"
    /\ IF Len(trace) = Len(Generators)
       THEN pc' = "All reports generated" /\ UNCHANGED <<fn, trace, error>>
       ELSE LET g == Generators[Len(trace) + 1] IN
            /\ fn' = g
            /\ trace' = Append(trace, g)
            /\ IF generator_error(g, models_data) # ""
               THEN /\ pc' = "raised"
                    /\ error' = Raise(generator_error(g, models_data), <<g>>)
               ELSE pc' = "main" /\ UNCHANGED error
    /\ UNCHANGED <<models_data, argVars, resultVars, renderVars, ratioVars, logVars,
                   data_file, analyzerVars, args, ret, files, success_count, total_scripts>>

NextMain == Main
(* the interpreter keeps running main() until it returns or raises *)
SpecMain == InitMain /\ [][NextMain]_vars /\ WF_vars(Main)

-----------------------------------------------------------------------------
(* run_all_analysis.py: main() runs the conversion, the modular analysis    *)
(* and the legacy scripts as subprocesses                                   *)

json_path == "rawdata/model_data.json"

(* Path("scripts") / script_name *)
script_path ==
    [convert_json_to_csv |-> "scripts/convert_json_to_csv.py",
     generate_charts_simple |-> "scripts/generate_charts_simple.py",
     generate_advanced_charts |-> "scripts/generate_advanced_charts.py",
     generate_html_report |-> "scripts/generate_html_report.py"]

(* the list scripts of main() *)
scripts ==
    <<"convert_json_to_csv", "generate_charts_simple",
      "generate_advanced_charts", "generate_html_report">>

(* how a subprocess can end: its return code, or subprocess.run raising;    *)
(* run_script does not start one for a script that is not there             *)
Outcomes(script_name) ==
    IF script_path[script_name] \in DOMAIN files
    THEN {"exit 0", "exit 1", "exception"}
    ELSE {"missing"}

(* run_script returning True on a success that is none *)
run_script_AnyExit(outcome) == outcome \in {"exit 0", "exit 1"}

(* what run_script and run_new_analysis return *)
run_script(outcome) == outcome = "exit 0"

InitRunAll ==
    /\ pc = "start" /\ fn = ""
    /\ models_data = <<>> /\ Unused
    /\ fmt_data = EmptyDict /\ ratio = EmptyDict
    /\ values = <<>> /\ use_log = FALSE
    /\ NoLoad /\ NoAnalyzer
    /\ args = <<>> /\ ret = None /\ trace = <<>>
    /\ success_count = 0 /\ total_scripts = 0
    /\ \E paths \in SUBSET ({json_path, csv_path} \cup DictValues(script_path)) :
           files = [p \in paths |-> Present]

RunAllFrame ==
    UNCHANGED <<fn, models_data, argVars, resultVars, renderVars, ratioVars, logVars,
                loadVars, analyzerVars, args, ret>>

(* the files after a step: a conversion that exited 0 has written the CSV,  *)
(* and main() makes the charts directory before the first analysis          *)
Written(paths) == [p \in paths \ DOMAIN files |-> Present] @@ files

(* lines 65-82: the checks of the two data files *)
RunAllCheck ==
    /\ pc = "start"
    /\ IF json_path \notin DOMAIN files THEN pc' = "returned" /\ UNCHANGED files
       ELSE IF csv_path \notin DOMAIN files THEN pc' = "convert" /\ UNCHANGED files
       ELSE pc' = "analysis" /\ files' = Written({"charts"})
    /\ UNCHANGED <<trace, success_count, total_scripts>>
    /\ RunAllFrame

(* lines 74-82: the conversion that comes first when the CSV is missing *)
RunAllConvert ==
    /\ pc = "convert"
    /\ \E outcome \in Outcomes("convert_json_to_csv") :
           /\ trace' = Append(trace, [step |-> "convert_json_to_csv", outcome |-> outcome])
           /\ IF run_script(outcome)
              THEN pc' = "analysis" /\ files' = Written({csv_path, "charts"})
              ELSE pc' = "returned" /\ UNCHANGED files
    /\ UNCHANGED <<success_count, total_scripts>>
    /\ RunAllFrame

(* lines 87-91: run_new_analysis *)
RunNewAnalysis ==
    /\ pc = "analysis"
    /\ \E outcome \in {"exit 0", "exit 1", "exception"} :
           /\ trace' = Append(trace, [step |-> "run_analysis", outcome |-> outcome])
           /\ success_count' = IF run_script(outcome) THEN success_count + 1
                               ELSE success_count
    /\ total_scripts' = total_scripts + 1
    /\ pc' = "scripts"
    /\ UNCHANGED files
    /\ RunAllFrame

(* lines 102-108: one round of the loop over scripts, and the summary       *)
(* after the last                                                           *)
RunLegacyScript ==
    /\ pc = "scripts"
    /\ LET script == scripts[total_scripts] IN
       \E outcome \in Outcomes(script) :
           /\ trace' = Append(trace, [step |-> script, outcome |-> outcome])
           /\ success_count' = IF run_script(outcome) THEN success_count + 1
                               ELSE success_count
           /\ files' = IF script = "convert_json_to_csv" /\ outcome = "exit 0"
                       THEN Written({csv_path}) ELSE files
    /\ total_scripts' = total_scripts + 1
    /\ pc' = IF total_scripts = Len(scripts) THEN "finished" ELSE "scripts"
    /\ RunAllFrame

NextRunAll == RunAllCheck \/ RunAllConvert \/ RunNewAnalysis \/ RunLegacyScript
SpecRunAll == InitRunAll /\ [][NextRunAll]_vars

-----------------------------------------------------------------------------
(* scripts/convert_json_to_csv.py *)

(* formats = ['fbx', 'obj', 'gltf', 'glb'] in alphabetical order *)
convert_formats_Sorted == <<"fbx", "glb", "gltf", "obj">>

(* formats = ['fbx', 'obj', 'gltf', 'glb'] *)
convert_formats == <<"fbx", "obj", "gltf", "glb">>

(* str(n), as csv.DictWriter writes the numbers of the model *)
str(n) ==
    CASE n = 0 -> "0"
      [] n = 1 -> "1"
      [] n = 2 -> "2"
      [] n = 5 -> "5"
      [] n = 10 -> "10"
      [] n = 20 -> "20"
      [] n = 30 -> "30"

(* the rows appended to csv_data for one model *)
RECURSIVE ModelRows(_, _)
ModelRows(model, fmts) ==
    IF fmts = <<>> THEN <<>>
    ELSE (IF Head(fmts) \in DOMAIN model.formats
          THEN LET format_data == model.formats[Head(fmts)] IN
               <<[model_name |-> model.model_name,
                  face_count |-> str(model.face_count),
                  texture_count |-> str(model.texture_count),
                  format |-> Head(fmts),
                  original_size_mb |-> str(format_data.original_size_mb),
                  compressed_size_mb |-> str(format_data.compressed_size_mb),
                  texture_size_mb |-> str(format_data.texture_size_mb)]>>
          ELSE <<>>)
         \o ModelRows(model, Tail(fmts))

(* csv_data after the loop over the models *)
RECURSIVE csv_data(_)
csv_data(json) ==
    IF json = <<>> THEN <<>>
    ELSE ModelRows(Head(json), convert_formats) \o csv_data(Tail(json))

(* rawdata/model_data.json: models measured in formats of the list and in   *)
(* one that is not in it                                                    *)
ConvertFormatMaps ==
    Dicts({"glb", "fbx", "obj", "stl"},
          {[original_size_mb |-> 10, compressed_size_mb |-> 5, texture_size_mb |-> 2]})
JsonModel(i, fm) ==
    [model_name |-> ModelNames[i], face_count |-> FaceCountOf(i),
     texture_count |-> TextureCountOf(i), formats |-> fm]

InitConvert ==
    /\ pc = "start" /\ fn = ""
    /\ models_data = <<>> /\ Unused
    /\ fmt_data = EmptyDict /\ ratio = EmptyDict
    /\ values = <<>> /\ use_log = FALSE
    /\ NoLoad /\ NoAnalyzer
    /\ args = <<>> /\ ret = None /\ trace = <<>>
    /\ success_count = 0 /\ total_scripts = 0
    /\ \E old \in {EmptyDict, (csv_path :> [state |-> "valid", rows |-> <<[model_name |-> "echo"]>>])} :
          \/ files = old
          \/ \E k \in 0..MaxModels : \E fm \in [1..k -> ConvertFormatMaps] :
                 files = (json_path :> [state |-> "valid",
                                        data |-> [i \in 1..k |-> JsonModel(i, fm[i])]])
                         @@ old

(* convert_json_to_csv *)
ConvertJsonToCsv ==
    /\ pc = "start"
    /\ fn' = "convert_json_to_csv"
    /\ pc' = "returned"
    /\ IF json_path \notin DOMAIN files
       THEN ret' = FALSE /\ UNCHANGED files
       ELSE /\ files' = (csv_path :> [state |-> "valid",
                                      rows |-> csv_data(files[json_path].data)])
                        @@ files
            /\ ret' = TRUE
    /\ UNCHANGED <<models_data, argVars, resultVars, renderVars, ratioVars, logVars,
                   loadVars, analyzerVars, args, trace, success_count, total_scripts>>

NextConvert == ConvertJsonToCsv
SpecConvert == InitConvert /\ [][NextConvert]_vars

-----------------------------------------------------------------------------
(* Properties of filter_models_by_nonempty (SpecFilter) *)

(* the filter's own test, stated on its arguments: row i of the candidate   *)
(* list has a format that the model was measured in and whose series value  *)
(* at i is a positive number                                                *)
HasPositive(i) ==
    \E fmt \in DOMAIN data_by_format :
        /\ fmt \in DOMAIN Lookup(models_data, arg_models[i]).formats
        /\ data_by_format[fmt][i] # None
        /\ data_by_format[fmt][i] > 0

(* C1: a candidate model is returned by filter_models_by_nonempty if and    *)
(* only if some format present in its 'formats' has a non-null series value *)
(* strictly greater than zero; nothing but candidates is returned.          *)
C1_FilteringSoundness ==
    pc = "done" =>
        /\ Range(models) \subseteq Range(arg_models)
        /\ \A i \in 1..Len(arg_models) :
               (arg_models[i] \in Range(models)) <=> HasPositive(i)

(* a direct call that keeps one model and drops another whose only positive *)
(* value belongs to a format the model was not measured in, and a third     *)
(* case: a dropped model whose values are all null, zero or negative        *)
C1_Witness ==
    /\ pc = "done"
    /\ fn = "main.filter_models_by_nonempty"
    /\ \E i, k \in 1..Len(arg_models) :
           /\ arg_models[i] \in Range(models)
           /\ arg_models[k] \notin Range(models)
           /\ \E fmt \in DOMAIN data_by_format :
                  /\ data_by_format[fmt][k] = 5
                  /\ fmt \notin DOMAIN Lookup(models_data, arg_models[k]).formats
           /\ \E fmt \in DOMAIN data_by_format :
                  /\ fmt \in DOMAIN Lookup(models_data, arg_models[k]).formats
                  /\ data_by_format[fmt][k] \in {0, -5}

(* C5: the texture counts returned by filter_models_by_nonempty are aligned *)
(* with the returned models: same length, and the i-th count is the texture *)
(* count of the i-th returned model.                                        *)
C5_TextureCountsAligned ==
    pc = "done" =>
        /\ Len(texture_counts) = Len(models)
        /\ \A j \in 1..Len(models) :
               texture_counts[j] = Lookup(models_data, models[j]).texture_count

StrictlyIncreasing(s) == \A a, b \in 1..Len(s) : a < b => s[a] < s[b]

(* C6: the returned models are a subsequence of the input list in its       *)
(* order: keep_indices is strictly increasing and in range, models and face *)
(* counts are the inputs at exactly those indices; the candidate list the   *)
(* charts pre-select, and so the displayed list, follow the table's order.  *)
C6_OrderPreserved ==
    pc = "done" =>
        /\ StrictlyIncreasing(keep_indices)
        /\ \A j \in 1..Len(keep_indices) : keep_indices[j] \in 1..Len(arg_models)
        /\ Len(models) = Len(keep_indices)
        /\ Len(face_counts) = Len(keep_indices)
        /\ \A j \in 1..Len(keep_indices) :
               /\ models[j] = arg_models[keep_indices[j]]
               /\ face_counts[j] = arg_face_counts[keep_indices[j]]
        /\ arg_models \in SubSeqs(Keys(models_data))
        /\ models \in SubSeqs(Keys(models_data))

(* C14: empty-input safety of the selection: with an empty model list       *)
(* filter_models_by_nonempty returns empty model, face-count and            *)
(* texture-count lists, with an empty series map no model qualifies         *)
(* whatever the table, and neither call raises.                             *)
C14_EmptyInputSafety ==
    /\ (pc = "raised" => fn \notin FilterNames)
    /\ (/\ pc = "done" /\ fn \in FilterNames
        /\ (arg_models = <<>> \/ DOMAIN data_by_format = {}))
       => /\ models = <<>> /\ face_counts = <<>>
          /\ texture_counts = <<>> /\ keep_indices = <<>>

(* the filter has returned from a call with two candidate models and an     *)
(* empty series map                                                         *)
C14_Witness ==
    /\ pc = "done"
    /\ fn = "main.filter_models_by_nonempty"
    /\ Len(arg_models) = 2
    /\ DOMAIN data_by_format = {}
    /\ models = <<>>

(* C15: the aggregation never raises on degenerate data: for a table in     *)
(* which a measured format's import_time_ms is absent or explicitly null,   *)
(* the import-time chart builds its series and selects its models without   *)
(* an exception.                                                            *)
C15_NoRaiseOnNull ==
    fn \in {"main.create_import_time_comparison",
            "report_generators.create_import_time_comparison"}
        => pc # "raised"

(* the chart of report_generators.py pre-selects two models and the filter  *)
(* keeps both, in table order                                               *)
C6_Witness ==
    /\ pc = "done"
    /\ fn = "report_generators.create_import_time_comparison"
    /\ arg_models = <<"alpha", "bravo">>
    /\ keep_indices = <<1, 2>>
    /\ models = <<"alpha", "bravo">>
    /\ face_counts = <<10, 20>>

-----------------------------------------------------------------------------
(* Properties of the ratio expressions (SpecRatio) *)

(* C7: the compression ratio is null exactly when sizeBefore is null or     *)
(* zero or sizeAfter is null; for every other pair, sizeAfter = 0 included, *)
(* it is (1 - sizeAfter / sizeBefore) * 100.                                *)
C7_CompressionRatio ==
    pc = "done" =>
        LET sizeBefore == Get(fmt_data, "size_before_mb")
            sizeAfter  == Get(fmt_data, "size_after_mb")
        IN IF sizeBefore = None \/ sizeBefore = 0 \/ sizeAfter = None
           THEN ratio.compression = None
           ELSE /\ ratio.compression # None
                /\ ratio.compression * sizeBefore = (sizeBefore - sizeAfter) * 100

(* C9: the texture share is null exactly when sizeBefore is null or zero or *)
(* textureSize is null; a texture size of 0 gives a share of 0, not null;   *)
(* otherwise it is (textureSize / sizeBefore) * 100.                        *)
C9_TextureShare ==
    (pc = "done" /\ "texture" \in DOMAIN ratio) =>
        LET sizeBefore  == Get(fmt_data, "size_before_mb")
            textureSize == Get(fmt_data, "texture_size_mb")
        IN IF sizeBefore = None \/ sizeBefore = 0 \/ textureSize = None
           THEN ratio.texture = None
           ELSE /\ ratio.texture # None
                /\ ratio.texture * sizeBefore = textureSize * 100

-----------------------------------------------------------------------------
(* Properties of should_use_log_scale (SpecLog) *)

PositiveIndices == {i \in 1..Len(values) : values[i] # None /\ values[i] > 0}

(* C10: should_use_log_scale is true if and only if, after discarding nulls *)
(* and values <= 0, at least two values remain and max/min of them is >=    *)
(* 100; [1, 99] gives false and [1, 100] gives true.                        *)
C10_LogScaleDecision ==
    pc = "done" =>
        /\ use_log <=>
               /\ Cardinality(PositiveIndices) >= 2
               /\ \E hi, lo \in PositiveIndices :
                      /\ \A i \in PositiveIndices :
                             values[lo] <= values[i] /\ values[i] <= values[hi]
                      /\ values[hi] >= 100 * values[lo]
        /\ values = <<1, 99>> => ~use_log
        /\ values = <<1, 100>> => use_log

(* the boundary list, and a list where nulls and non-positive values had to *)
(* be discarded before a true decision                                      *)
C10_Witness ==
    /\ pc = "done"
    /\ use_log
    /\ \/ values = <<1, 100>>
       \/ values = <<None, 2, 200>>
       \/ values = <<0, 2, 200>>

C11_LogScaleIgnoresNonPositive ==
    /\ [](pc = "done" /\ Cardinality(PositiveIndices) < 2 => ~use_log)
    /\ [][pc = "done" /\ pc' = "positives" => use_log' = use_log]_vars

(* a call that returned on a list holding a null, a negative value and one  *)
(* positive value, and one on a list of zeros only                          *)
C11_Witness ==
    /\ pc = "done"
    /\ ~use_log
    /\ values \in {<<None, -1, 200>>, <<0, 0>>}

SpreadAtLeast(t) ==
    /\ Cardinality(PositiveIndices) >= 2
    /\ \E hi, lo \in PositiveIndices :
           /\ \A i \in PositiveIndices :
                  values[lo] <= values[i] /\ values[i] <= values[hi]
           /\ values[hi] >= t * values[lo]

(* C13: one log-scale threshold is applied uniformly: the definitions of    *)
(* should_use_log_scale in Scripts/chart_utils.py and Scripts/main.py       *)
(* return the same boolean on every list, and the chart's axis scale is     *)
(* what that function decides, with the threshold of 100 and no other.      *)
C13_OneThreshold ==
    /\ [][pc = "done" /\ pc' = "other" => use_log' = use_log]_vars
    /\ [](pc = "axis" => (use_log <=> SpreadAtLeast(100)))

(* the other definition has been called on a list whose spread is between   *)
(* 10 and 100 and has answered false                                        *)
C13_Witness ==
    /\ pc = "other"
    /\ fn = "chart_utils.should_use_log_scale"
    /\ values = <<1, 99>>
    /\ ~use_log

-----------------------------------------------------------------------------
(* Properties of load_raw_data (SpecLoad) *)

(* the message of the exception holds the path the function opened *)
NamesFilePath ==
    /\ error # EmptyDict
    /\ (IF fn = "main.load_raw_data" THEN main_data_path ELSE dl_data_path)
           \in Range(error.message)

(* C17: the loader fails fast: load_raw_data returns the parsed table only  *)
(* when the data file exists and parses as JSON; when the file is missing   *)
(* or malformed it raises an error that names the file path, and returns    *)
(* no table, empty or not.                                                  *)
C17_LoaderFailsFast ==
    pc # "start" =>
        /\ pc = "done" <=> data_file.state = "valid"
        /\ pc = "done" => models_data = data_file.content /\ error = EmptyDict
        /\ data_file.state \in {"missing", "malformed"} =>
               pc = "raised" /\ NamesFilePath /\ models_data = <<>>

-----------------------------------------------------------------------------
(* Properties of ModelAnalyzer (SpecAnalyzer) *)

Loaded == pc \in {"loaded", "done"}

(* C18: in ModelAnalyzer a compression ratio with a zero uncompressed size  *)
(* is undefined, not zero: a loaded row whose original_size_mb is 0 has the *)
(* missing sentinel (null) for compression_ratio, not 0.0.                  *)
C18_ZeroOriginalUndefined ==
    Loaded =>
        \A i \in 1..Len(data) :
            data[i].original_size_mb = 0 => data[i].compression_ratio = None

(* C19: the derived metrics match their reference formulas: every loaded    *)
(* row with original_size_mb != 0 has compression_ratio equal to            *)
(* (original_size_mb - compressed_size_mb) / original_size_mb * 100 and     *)
(* texture_percentage equal to texture_size_mb / original_size_mb * 100.    *)
C19_DerivedMetrics ==
    Loaded =>
        /\ Len(data) = Len(csv_rows)
        /\ \A i \in 1..Len(data) :
               LET row == data[i] IN
               /\ row.original_size_mb = ParseNumber(csv_rows[i].original_size_mb)
               /\ row.compressed_size_mb = ParseNumber(csv_rows[i].compressed_size_mb)
               /\ row.texture_size_mb = ParseNumber(csv_rows[i].texture_size_mb)
               /\ row.original_size_mb # 0 =>
                      /\ row.compression_ratio * row.original_size_mb
                             = (row.original_size_mb - row.compressed_size_mb) * 100
                      /\ row.texture_percentage * row.original_size_mb
                             = row.texture_size_mb * 100

(* a file has been loaded with a row that grew under compression and a row  *)
(* that shrank                                                              *)
C19_Witness ==
    /\ pc = "loaded"
    /\ Len(data) = 2
    /\ data[1].compression_ratio = -100 /\ data[1].texture_percentage = 50
    /\ data[2].compression_ratio = 75 /\ data[2].texture_percentage = 25

RowsOfFormat(f) == {i \in 1..Len(data) : data[i].format = f}
RECURSIVE SumOver(_, _)
SumOver(idx, key) ==
    IF idx = {} THEN 0
    ELSE LET i == CHOOSE j \in idx : TRUE IN data[i][key] + SumOver(idx \ {i}, key)

(* C20: analyze_all_formats has an entry for exactly the formats that occur *)
(* in the loaded rows; for each, count is the number of rows of the format, *)
(* avg_original_size and avg_compressed_size are the arithmetic means over  *)
(* those rows, and the min/max values bound every row of the format.        *)
C20_FormatAnalysis ==
    pc = "done" =>
        /\ DOMAIN results = {data[i].format : i \in 1..Len(data)}
        /\ \A f \in DOMAIN results :
               LET a == results[f]
                   idx == RowsOfFormat(f)
               IN /\ a.count = Cardinality(idx)
                  /\ a.avg_original_size.num * a.count
                         = SumOver(idx, "original_size_mb") * a.avg_original_size.den
                  /\ a.avg_compressed_size.num * a.count
                         = SumOver(idx, "compressed_size_mb") * a.avg_compressed_size.den
                  /\ \A i \in idx :
                         /\ a.min_original_size <= data[i].original_size_mb
                         /\ data[i].original_size_mb <= a.max_original_size
                         /\ a.min_compressed_size <= data[i].compressed_size_mb
                         /\ data[i].compressed_size_mb <= a.max_compressed_size
                  /\ \E i, j \in idx :
                         /\ a.min_original_size = data[i].original_size_mb
                         /\ a.max_original_size = data[j].original_size_mb

(* two rows of one format have been analysed: means 15 and 25/2 *)
C20_Witness ==
    /\ pc = "done"
    /\ DOMAIN results = {"fbx"}
    /\ results["fbx"].count = 2
    /\ results["fbx"].avg_original_size = [num |-> 15, den |-> 1]
    /\ results["fbx"].avg_compressed_size = [num |-> 25, den |-> 2]
    /\ results["fbx"].min_original_size = 10
    /\ results["fbx"].max_original_size = 20

-----------------------------------------------------------------------------
(* Properties of the charts (SpecCharts) *)

(* a chart or a section of the combined report has produced its lists *)
Shown == pc \notin {"start", "raised"}

(* the model has a positive number for one of the keys in one of the formats *)
PositiveIn(model_data, fmts, keys) ==
    \E fmt \in fmts, k \in keys :
        /\ fmt \in DOMAIN model_data.formats
        /\ Get(model_data.formats[fmt], k) # None
        /\ Get(model_data.formats[fmt], k) > 0

(* C2: in a chart built from several metric keys, a model with a positive   *)
(* value for any one of the keys in any considered format is displayed      *)
(* (glTF/GLB chart: load_time_ms, load_memory_mb; size/memory section of    *)
(* the combined report: size_before_mb, size_after_mb, peak_memory_mb).     *)
C2_CrossProductSelection ==
    /\ (Shown /\ fn = "create_gltf_glb_comparison") =>
           \A i \in 1..Len(models_data) :
               PositiveIn(models_data[i], gltf_glb_formats,
                          {"load_time_ms", "load_memory_mb"})
                   => models_data[i].name \in Range(models)
    /\ (Shown /\ fn = "create_combined_report.6") =>
           \A i \in 1..Len(models_data) :
               PositiveIn(models_data[i], FormatsSet, Combined6_keys)
                   => models_data[i].name \in Range(models)

(* the metric each plain series is extracted from *)
SourceMetric ==
    [load_time_data   |-> "load_time_ms",
     load_memory_data |-> "load_memory_mb",
     size_before_data |-> "size_before_mb",
     size_after_data  |-> "size_after_mb",
     memory_data      |-> "peak_memory_mb"]

(* C3: for each displayed model and format, a source metric that is absent, *)
(* null or of a format not measured gives a null series entry, never 0; a   *)
(* source metric that is exactly 0 gives the entry 0, never null.           *)
C3_NullZeroApart ==
    Shown =>
        \A s \in (DOMAIN series) \cap (DOMAIN SourceMetric) :
            \A fmt \in DOMAIN series[s] :
                \A j \in 1..Len(models) :
                    LET model_data == Lookup(models_data, models[j])
                        source == IF fmt \in DOMAIN model_data.formats
                                  THEN Get(model_data.formats[fmt], SourceMetric[s])
                                  ELSE None
                    IN /\ source = None => series[s][fmt][j] = None
                       /\ source = 0 => series[s][fmt][j] = 0

(* the value of one model in one series, as the chart that builds the       *)
(* series extracts it from the table                                        *)
SeriesEntry(s, model_data, fmt) ==
    CASE s = "load_time_data"         -> GltfGlb_load_time(model_data, fmt)
      [] s = "load_memory_data"       -> GltfGlb_load_memory(model_data, fmt)
      [] s = "data_by_format"         -> ModelFormat_entry(model_data, fmt)
      [] s = "compression_ratio_data" -> Combined5_compression(model_data, fmt)
      [] s = "texture_ratio_data"     -> Combined5_texture(model_data, fmt)
      [] s = "size_before_data"       -> Combined6_size_before(model_data, fmt)
      [] s = "size_after_data"        -> Combined6_size_after(model_data, fmt)
      [] s = "memory_data"            -> Combined6_memory(model_data, fmt)

(* C4: after pre-selection and filtering every per-format series has as     *)
(* many entries as the displayed model list, and entry i is the value of    *)
(* the model at position i of that list.                                    *)
C4_SeriesAligned ==
    Shown =>
        \A s \in DOMAIN series :
            \A fmt \in DOMAIN series[s] :
                /\ Len(series[s][fmt]) = Len(models)
                /\ \A j \in 1..Len(models) :
                       series[s][fmt][j] =
                           SeriesEntry(s, Lookup(models_data, models[j]), fmt)

(* the series of compression ratios of the chart that ran *)
RatioSeries ==
    IF fn = "create_combined_report.5" THEN "compression_ratio_data" ELSE "data_by_format"

(* C8: when sizeAfter > sizeBefore > 0 for a model and format, the model is *)
(* displayed and the height drawn for it is the negative ratio itself.      *)
C8_NegativeRatiosReported ==
    (Shown /\ fn \in {"create_model_format_compression_ratio_chart",
                      "create_combined_report.4", "create_combined_report.5"}) =>
        \A i \in 1..Len(models_data) :
            \A fmt \in FormatsSet \cap DOMAIN models_data[i].formats :
                LET sizeBefore == Get(models_data[i].formats[fmt], "size_before_mb")
                    sizeAfter  == Get(models_data[i].formats[fmt], "size_after_mb")
                IN (sizeBefore # None /\ sizeAfter # None
                    /\ sizeBefore > 0 /\ sizeAfter > sizeBefore) =>
                       /\ models_data[i].name \in Range(models)
                       /\ \A j \in 1..Len(models) :
                              models[j] = models_data[i].name =>
                                  bars[RatioSeries][fmt][j] * sizeBefore
                                      = (sizeBefore - sizeAfter) * 100

-----------------------------------------------------------------------------
(* Properties of the ModelAnalyzer and MemoryAnalyzer queries (SpecQuery) *)

(* the code points of the names and formats of QueryCells *)
Spelling ==
    [alpha |-> <<97, 108, 112, 104, 97>>, bravo |-> <<98, 114, 97, 118, 111>>,
     fbx |-> <<102, 98, 120>>, glTF |-> <<103, 108, 84, 70>>,
     glb |-> <<103, 108, 98>>, obj |-> <<111, 98, 106>>]

(* a < b on sequences of code points, as Python compares two str *)
RECURSIVE LexLess(_, _)
LexLess(a, b) ==
    IF b = <<>> THEN FALSE
    ELSE IF a = <<>> THEN TRUE
    ELSE IF Head(a) # Head(b) THEN Head(a) < Head(b)
    ELSE LexLess(Tail(a), Tail(b))

Ascending(names) ==
    \A i \in 1..Len(names) - 1 : LexLess(Spelling[names[i]], Spelling[names[i + 1]])

(* C21: ModelAnalyzer loads one record per CSV data row, in file order, and *)
(* get_formats / get_models return every distinct format / model name of    *)
(* the records exactly once, in ascending sorted order.                     *)
C21_LoadAndNames ==
    /\ pc \in {"loaded", "returned"} =>
           /\ Len(data) = Len(csv_rows)
           /\ \A i \in 1..Len(data) :
                  /\ data[i].model_name = csv_rows[i].model_name
                  /\ data[i].format = csv_rows[i].format
    /\ pc = "returned" /\ fn = "ModelAnalyzer.get_formats" =>
           /\ Range(ret) = {data[i].format : i \in 1..Len(data)}
           /\ Ascending(ret)
    /\ pc = "returned" /\ fn = "ModelAnalyzer.get_models" =>
           /\ Range(ret) = {data[i].model_name : i \in 1..Len(data)}
           /\ Ascending(ret)

(* the file lists glb before glTF, and get_formats returned glTF first *)
C21_Witness ==
    /\ pc = "returned" /\ fn = "ModelAnalyzer.get_formats"
    /\ Len(data) = 2
    /\ data[1].format = "glb" /\ data[2].format = "glTF"
    /\ ret = <<"glTF", "glb">>

(* the mean over the rows of format f of a column is at most that of g *)
MeanAtMost(f, g, key) ==
    SumOver(RowsOfFormat(f), key) * Cardinality(RowsOfFormat(g))
        <= SumOver(RowsOfFormat(g), key) * Cardinality(RowsOfFormat(f))

MemoryRowsOf(f) == {i \in RowsOfFormat(f) : data[i].peak_memory_mb # None}
Measured == {f \in {data[i].format : i \in 1..Len(data)} : MemoryRowsOf(f) # {}}

(* C23: find_memory_efficient_formats lists every format that has a row     *)
(* with a peak memory exactly once, with the mean peak memory of those      *)
(* rows, in ascending order of the mean; a format with no memory data is    *)
(* not listed.                                                              *)
C23_MemoryRanking ==
    pc = "returned" /\ fn = "MemoryAnalyzer.find_memory_efficient_formats" =>
        /\ {ret[i][1] : i \in 1..Len(ret)} = Measured
        /\ Len(ret) = Cardinality(Measured)
        /\ \A i \in 1..Len(ret) :
               ret[i][2].num * Cardinality(MemoryRowsOf(ret[i][1]))
                   = SumOver(MemoryRowsOf(ret[i][1]), "peak_memory_mb") * ret[i][2].den
        /\ \A i \in 1..Len(ret) - 1 :
               ret[i][2].num * ret[i + 1][2].den <= ret[i + 1][2].num * ret[i][2].den

(* fbx comes first in the file with the higher peak memory, and is ranked   *)
(* behind obj                                                               *)
C23_Witness ==
    /\ pc = "returned" /\ fn = "MemoryAnalyzer.find_memory_efficient_formats"
    /\ Len(data) = 2
    /\ data[1].format = "fbx" /\ data[1].peak_memory_mb = 30
    /\ data[2].format = "obj" /\ data[2].peak_memory_mb = 10
    /\ ret = << <<"obj", [num |-> 10, den |-> 1]>>, <<"fbx", [num |-> 30, den |-> 1]>> >>

MemoryRows == {i \in 1..Len(data) : data[i].peak_memory_mb # None}

(* C24: get_memory_statistics returns the error record exactly when no row  *)
(* has a peak memory; with one such row or more it returns, and never       *)
(* raises, a record without 'error' whose total_count is the number of      *)
(* those rows and whose min and max are their smallest and largest value.   *)
C24_MemoryStatistics ==
    fn = "MemoryAnalyzer.get_memory_statistics" =>
        /\ pc # "raised"
        /\ pc = "returned" =>
               IF MemoryRows = {} THEN DOMAIN ret = {"error"}
               ELSE /\ "error" \notin DOMAIN ret
                    /\ ret.total_count = Cardinality(MemoryRows)
                    /\ \A i \in MemoryRows :
                           ret.min <= data[i].peak_memory_mb
                           /\ data[i].peak_memory_mb <= ret.max
                    /\ \E i, j \in MemoryRows :
                           ret.min = data[i].peak_memory_mb
                           /\ ret.max = data[j].peak_memory_mb

(* |m * 2^e| <= 1 *)
AtMostOne(x) ==
    IF x.e >= 0 THEN Abs(x.m) * Pow2(x.e) <= 1 ELSE Abs(x.m) <= Pow2(-x.e)

(* C25: every correlation get_memory_correlation_analysis returns for a     *)
(* data set with memory data is a number between -1 and 1 inclusive, and 0  *)
(* when there are fewer than two pairs.                                     *)
C25_CorrelationBounded ==
    pc = "returned" /\ fn = "MemoryAnalyzer.get_memory_correlation_analysis"
    /\ MemoryRows # {} =>
        \A k \in DOMAIN ret :
            /\ ret[k].type = "float"
            /\ AtMostOne(ret[k])
            /\ Cardinality(MemoryRows) < 2 => ret[k].m = 0

(* C26: find_best_format('memory') returns a format whose average peak      *)
(* memory is the smallest among the formats that have memory data; only a   *)
(* format without memory data ranks last, a measured average of 0 does not. *)
C26_MemoryZeroApart ==
    pc = "returned" /\ fn = "ModelAnalyzer.find_best_format" /\ args = <<"memory">>
    /\ Measured # {} =>
        /\ ret[1] \in Measured
        /\ \A f \in Measured :
               SumOver(MemoryRowsOf(ret[1]), "peak_memory_mb") * Cardinality(MemoryRowsOf(f))
                   <= SumOver(MemoryRowsOf(f), "peak_memory_mb")
                          * Cardinality(MemoryRowsOf(ret[1]))

-----------------------------------------------------------------------------
(* Properties of the report run (SpecMain) *)

(* C27: from a loaded, non-empty table main() calls the ten create_*        *)
(* generators once each in its fixed order and eventually reaches 'All      *)
(* reports generated'; no generator ends the run before the later ones.     *)
C27_RunCompletes ==
    <>(pc = "All reports generated" /\ trace = Generators)

-----------------------------------------------------------------------------
(* Properties of run_all_analysis.main (SpecRunAll) *)

(* the steps that count: the modular analysis, then the legacy scripts *)
CountedOrder ==
    <<"run_analysis", "convert_json_to_csv", "generate_charts_simple",
      "generate_advanced_charts", "generate_html_report">>

(* the conversion main() runs first because the CSV was missing *)
ConvertedFirst == trace # <<>> /\ trace[1].step = "convert_json_to_csv"

(* the counted steps started so far *)
CountedSteps == IF ConvertedFirst THEN Tail(trace) ELSE trace

ExitedZero == {i \in 1..Len(CountedSteps) : CountedSteps[i].outcome = "exit 0"}

C28_State ==
    /\ json_path \notin DOMAIN files => trace = <<>>
    /\ ConvertedFirst /\ trace[1].outcome # "exit 0" => Len(trace) = 1 /\ pc = "returned"
    /\ Len(CountedSteps) <= Len(CountedOrder)
    /\ \A i \in 1..Len(CountedSteps) : CountedSteps[i].step = CountedOrder[i]
    /\ pc = "returned" =>
           \/ json_path \notin DOMAIN files
           \/ ConvertedFirst /\ trace[1].outcome # "exit 0"
    /\ pc = "finished" =>
           /\ Len(CountedSteps) = 5
           /\ total_scripts = 5
           /\ 0 <= success_count /\ success_count <= total_scripts
           /\ success_count = Cardinality(ExitedZero)

C28_FirstStep ==
    trace = <<>> /\ trace' # <<>> =>
        trace'[1].step = IF csv_path \in DOMAIN files THEN "run_analysis"
                         ELSE "convert_json_to_csv"

(* C28: without rawdata/model_data.json nothing is run; with the CSV        *)
(* missing the conversion runs before any analysis and its failure ends the *)
(* run with no analysis started; otherwise the modular analysis runs first, *)
(* then the four legacy scripts in list order, each attempted whatever      *)
(* failed before; at the end total_scripts is 5 and success_count, between  *)
(* 0 and total_scripts, is the number of those steps that exited with 0.    *)
C28_RunOrder == []C28_State /\ [][C28_FirstStep]_vars

(* a run that converted first, lost the modular analysis and one legacy     *)
(* script, and still attempted and counted the others                       *)
C28_Witness ==
    /\ pc = "finished" /\ Len(trace) = 6
    /\ trace[1].outcome = "exit 0"
    /\ trace[2].outcome = "exit 1"
    /\ trace[4].outcome = "missing"
    /\ trace[5].outcome = "exception"
    /\ success_count = 2

-----------------------------------------------------------------------------
(* Properties of convert_json_to_csv (SpecConvert) *)

FixedOrder == <<"fbx", "obj", "gltf", "glb">>

(* the pairs (model, format of the fixed list) the JSON holds *)
Pairs(json) ==
    {q \in (1..Len(json)) \X (1..Len(FixedOrder)) :
        FixedOrder[q[2]] \in DOMAIN json[q[1]].formats}

(* the place of a pair by model order, then by the fixed format order *)
PlaceOf(q, json) ==
    1 + Cardinality({r \in Pairs(json) : r[1] < q[1] \/ (r[1] = q[1] /\ r[2] < q[2])})

(* the number a cell of the CSV spells *)
Decimal(cell) ==
    CHOOSE n \in 0..30 :
        cell = (CASE n < 10 -> <<n>> [] OTHER -> <<n \div 10, n % 10>>)

Digits(cell) ==
    CASE cell = "0" -> <<0>> [] cell = "1" -> <<1>> [] cell = "2" -> <<2>>
      [] cell = "5" -> <<5>> [] cell = "10" -> <<1, 0>> [] cell = "20" -> <<2, 0>>
      [] cell = "30" -> <<3, 0>>

C29_Step ==
    pc = "start" /\ pc' = "returned" =>
        IF json_path \notin DOMAIN files
        THEN ret' = FALSE /\ files' = files
        ELSE LET json == files[json_path].data
                 rows == files'[csv_path].rows
             IN /\ Len(rows) = Cardinality(Pairs(json))
                /\ \A q \in Pairs(json) :
                       LET row == rows[PlaceOf(q, json)] IN
                       /\ row.model_name = json[q[1]].model_name
                       /\ row.format = FixedOrder[q[2]]
                       /\ Decimal(Digits(row.face_count)) = json[q[1]].face_count
                       /\ Decimal(Digits(row.texture_count)) = json[q[1]].texture_count

(* C29: convert_json_to_csv writes one row for each pair of a model and a   *)
(* format among fbx, obj, gltf, glb that the model has, in the order of the *)
(* models in the JSON and then of that list, each row with the model's      *)
(* name, face count and texture count; without the JSON file it returns     *)
(* False and writes no CSV file.                                            *)
C29_RowsPerPair == [][C29_Step]_vars

(* two models, the first in all the formats drawn, one of them outside the  *)
(* list, so that the order of the list shows and a format is left out       *)
C29_Witness ==
    /\ pc = "returned" /\ fn = "convert_json_to_csv" /\ ret = TRUE
    /\ Len(files[json_path].data) = 2
    /\ DOMAIN files[json_path].data[1].formats = {"fbx", "obj", "glb", "stl"}
    /\ Len(files[csv_path].rows) = 4

-----------------------------------------------------------------------------
(* Properties of generate_all_reports (SpecReports) *)

ReportFiles(memory_analyzer) ==
    {"charts/analysis_report.txt", "charts/analysis_report.html",
     "charts/summary_report.json", "charts/summary_statistics.csv",
     "charts/model_comparison_data.json", "charts/memory_analysis.json"}
    \cup (IF memory_analyzer
          THEN {"charts/detailed_memory_analysis.json", "charts/memory_analysis_report.txt"}
          ELSE {})

(* C30: the mapping generate_all_reports returns names every file it        *)
(* generated: the text and HTML reports, the summary JSON and CSV, the      *)
(* comparison JSON, the memory JSON and, with a memory analyzer, the        *)
(* detailed memory JSON and the memory text report are all among its        *)
(* values; no entry of a later step replaces the path of a generated file.  *)
C30_AllFilesNamed ==
    pc = "returned" /\ fn = "ReportGenerator.generate_all_reports" =>
        /\ \A path \in DOMAIN files : \E k \in DOMAIN ret : ret[k] = path
        /\ \A path \in ReportFiles(args[1]) : \E k \in DOMAIN ret : ret[k] = path

=============================================================================
